---- MODULE Spec2Model ----
(***************************************************************************)
(* Verification model of yazgazan/kvstore.                                 *)
(*                                                                         *)
(* Part I   container: chunk pool (Pool, Chunk), KV-node list (KVNode),    *)
(*          bucket arrays (hashBuckets, hashBucket) and HashMap, over the   *)
(*          byte stream the pool is given.  Specification Spec.            *)
(*                                                                         *)
(* A pool operation that allocates can reuse any fitting free chunk (Go    *)
(* ranges over the freeChunks map in an unspecified order), so every       *)
(* state-changing operator yields the SET of its possible outcomes; an     *)
(* outcome is a record [s, err, ret]: the state afterwards, the Go error   *)
(* ("nil" for none) and the returned value.  A loop of the code that never *)
(* ends is the outcome err = "hang".                                       *)
(***************************************************************************)
EXTENDS Integers, Sequences, FiniteSets, TLC

(***************************************************************************)
(* Program constants.                                                      *)
(***************************************************************************)
HashMapN == 128

\* The source sets HashMapMaxList = 32; the model scales the split threshold
\* down so that lists reach it with a handful of keys.
HashMapMaxList == 3

\* Chunk.headerSize(): cap uint32 + size uint32 + free bool.
headerSize == 9

\* binary size of kvnodeDTO: four int64 chunk pointers.
sizeKVNode == 32

\* binary size of one bucket entry: Type uint8 + Head int64.
sizeHashBucket == 9

sizeHashBuckets == HashMapN * sizeHashBucket

bucketTypeList == 0

bucketTypeBuckets == 1

(***************************************************************************)
(* Bounds of the model.                                                    *)
(***************************************************************************)
\* Number of HashMap operations in one run.
MaxOps == 5

\* Keys of the model: two-byte keys that all fall into slot 49 of the root
\* bucket array (salt "0").
Keys == { <<97, 97>>, <<103, 115>>, <<104, 110>>, <<110, 120>> }

\* Values of the model: the empty value and a one-byte value.
Values == { <<>>, <<7>> }

(***************************************************************************)
(* hash/fnv New32a, on 32-bit words kept as two 16-bit halves [hi, lo].    *)
(***************************************************************************)
RECURSIVE Xor(_, _, _)
Xor(a, b, bits) ==
    IF bits = 0 THEN 0
    ELSE ((a + b) % 2) + 2 * Xor(a \div 2, b \div 2, bits - 1)

\* offset basis 2166136261 = 0x811C9DC5
fnvOffset32 == [hi |-> 33052, lo |-> 40389]

\* one round of FNV-1a: h = (h XOR byte) * 16777619 mod 2^32,
\* 16777619 = 2^24 + 403.
fnvStep(h, byte) ==
    LET lo1 == (h.lo - (h.lo % 256)) + Xor(h.lo % 256, byte, 8)
        m   == lo1 * 403
    IN  [hi |-> (h.hi * 403 + (m \div 65536) + (lo1 % 256) * 256) % 65536,
         lo |-> m % 65536]

RECURSIVE fnvWrite(_, _)
fnvWrite(h, bytes) ==
    IF bytes = <<>> THEN h ELSE fnvWrite(fnvStep(h, Head(bytes)), Tail(bytes))

hashKey(b) == fnvWrite(fnvOffset32, b)

\* Sum32() % n
Sum32Mod(h, n) == ((h.hi % n) * (65536 % n) + h.lo) % n

\* strconv.FormatInt(pos, 32) as ASCII bytes: digits 0-9 then a-v.
digit32(d) == IF d < 10 THEN 48 + d ELSE 87 + d

RECURSIVE FormatInt32(_)
FormatInt32(n) ==
    IF n < 32 THEN << digit32(n) >>
    ELSE Append(FormatInt32(n \div 32), digit32(n % 32))

\* hashBuckets.bucket: the slot of key in the bucket array stored at chunk pos.
bucketIdx(pos, key) == Sum32Mod(hashKey(FormatInt32(pos) \o key), HashMapN)

(***************************************************************************)
(* Outcomes of operations.                                                 *)
(***************************************************************************)
NoErr == "nil"

Ok(s, ret) == [s |-> s, err |-> NoErr, ret |-> ret]

Fail(s, e) == [s |-> s, err |-> e, ret |-> 0]

\* Sequencing as in Go: the next step runs on the state and result of a step
\* that returned no error; an error is returned to the caller as it is.
Bind(outs, F(_)) == UNION { IF o.err = NoErr THEN F(o) ELSE {o} : o \in outs }

(***************************************************************************)
(* The pool's backing stream and the pool (container.Pool, container.Chunk)*)
(*                                                                         *)
(* A state s of a hash-map is a record                                     *)
(*   disk       : chunk position -> [cap, size, free, data], the chunks as *)
(*                the stream holds them (header and the first size bytes   *)
(*                of the payload)                                          *)
(*   flen       : length of the stream in bytes                            *)
(*   chunks     : Pool.chunks, position -> [cap, size, free] (the Chunk    *)
(*                structs in memory)                                       *)
(*   freeChunks : the keys of Pool.freeChunks                              *)
(*   head       : HashMap.headBuckets, slot -> [Type, Head] in memory      *)
(* A pool alone is such a record without head.                             *)
(* The payload of a chunk is one of                                        *)
(*   [t |-> "raw", v |-> bytes]               key or value bytes           *)
(*   [t |-> "node", v |-> <<prev, next, key, value>>]   a kvnodeDTO        *)
(*   [t |-> "bb", v |-> slot -> [Type, Head]] a bucket array               *)
(***************************************************************************)
Raw(b) == [t |-> "raw", v |-> b]

NodeData(n) == [t |-> "node", v |-> <<n.prev, n.next, n.key, n.value>>]

BBData(slots) == [t |-> "bb", v |-> slots]

emptySlot == [Type |-> bucketTypeList, Head |-> 0]

emptyBuckets == [i \in 0 .. HashMapN - 1 |-> emptySlot]

\* readWriteSeeker.Read after Seek(off): bytes.Reader.ReadAt returns io.EOF
\* when off is at or after the end of the buffer (also for an empty p) and
\* when fewer than len(p) bytes are left.
streamRead(s, off, n) ==
    IF off >= s.flen \/ s.flen - off < n THEN "EOF" ELSE NoErr

\* Chunk.writeHeader: the header on the stream becomes the struct in memory.
writeHeader(s, c) ==
    [s EXCEPT !.disk[c].cap = s.chunks[c].cap,
              !.disk[c].size = s.chunks[c].size,
              !.disk[c].free = s.chunks[c].free]

\* Chunk.initialize without the cap zero bytes after the header.
initialize_NoPayload(s, n) ==
    LET pos == s.flen
        hdr == [cap |-> n, size |-> 0, free |-> FALSE]
    IN  [s EXCEPT !.disk = (pos :> [cap |-> n, size |-> 0, free |-> FALSE,
                                    data |-> Raw(<<>>)]) @@ s.disk,
                  !.flen = pos + headerSize,
                  !.chunks = (pos :> hdr) @@ s.chunks]

\* Chunk.initialize: the new chunk is written at the end of the stream, its
\* header followed by cap zero bytes.
initialize(s, n) ==
    LET pos == s.flen
        hdr == [cap |-> n, size |-> 0, free |-> FALSE]
    IN  [s EXCEPT !.disk = (pos :> [cap |-> n, size |-> 0, free |-> FALSE,
                                    data |-> Raw(<<>>)]) @@ s.disk,
                  !.flen = pos + headerSize + n,
                  !.chunks = (pos :> hdr) @@ s.chunks]

\* Pool.Alloc: any free chunk with cap >= n is reused (size 0, free false,
\* header rewritten, dropped from freeChunks); with none the pool grows.
\* A reused chunk keeps its old payload bytes on the stream; with size 0 none
\* of them is read again, so the model clears them.
allocReuse(s, c) ==
    LET s1 == [s EXCEPT !.chunks[c].size = 0, !.chunks[c].free = FALSE]
        s2 == writeHeader(s1, c)
    IN  [s2 EXCEPT !.disk[c].data = Raw(<<>>),
                   !.freeChunks = s.freeChunks \ {c}]

\* A Pool.Alloc that takes any free chunk, whatever its cap.
Alloc_AnyFree(s, n) ==
    IF s.freeChunks # {}
    THEN { Ok(allocReuse(s, c), c) : c \in s.freeChunks }
    ELSE { Ok(initialize(s, n), s.flen) }

Alloc(s, n) ==
    LET fits == { c \in s.freeChunks : s.chunks[c].cap >= n }
    IN  IF fits # {}
        THEN { Ok(allocReuse(s, c), c) : c \in fits }
        ELSE { Ok(initialize(s, n), s.flen) }

\* Chunk.Write that also trims the chunk to the bytes written.
ChunkWrite_Trim(s, c, data, len) ==
    IF len > s.chunks[c].cap THEN { Fail(s, "chunk too small") }
    ELSE LET s1 == writeHeader([s EXCEPT !.chunks[c].size = len,
                                         !.chunks[c].cap = len], c)
         IN  { Ok([s1 EXCEPT !.disk[c].data = data], 0) }

\* Chunk.Write of a payload of len bytes.
ChunkWrite(s, c, data, len) ==
    IF len > s.chunks[c].cap THEN { Fail(s, "chunk too small") }
    ELSE LET s1 == writeHeader([s EXCEPT !.chunks[c].size = len], c)
         IN  { Ok([s1 EXCEPT !.disk[c].data = data], 0) }

\* Chunk.WriteAt of the raw bytes p at the offset off of the payload: size
\* grows to off + len(p) when that is more.  A byte between the old size and
\* off is zero in a new chunk and otherwise what an earlier, longer write
\* left there; the model keeps no such byte and writes stale for it.
ChunkWriteAt(s, c, p, off) ==
    IF off + Len(p) > s.chunks[c].cap THEN { Fail(s, "chunk too small") }
    ELSE LET old  == s.disk[c].data.v
             stale == -1
             size == IF off + Len(p) > s.chunks[c].size THEN off + Len(p)
                     ELSE s.chunks[c].size
             s1   == IF off + Len(p) > s.chunks[c].size
                     THEN writeHeader([s EXCEPT !.chunks[c].size = size], c)
                     ELSE s
         IN  { Ok([s1 EXCEPT !.disk[c].data =
                      Raw([i \in 1 .. size |->
                             IF i > off /\ i <= off + Len(p) THEN p[i - off]
                             ELSE IF i <= Len(old) THEN old[i]
                             ELSE stale])], Len(p)) }

\* Pool.Allocated: the chunks that are not free.
Allocated(s) == { c \in DOMAIN s.chunks : ~s.chunks[c].free }

\* Chunk.Free / Chunk.freeChunk.
ChunkFree(s, c) ==
    LET s1 == writeHeader([s EXCEPT !.chunks[c].free = TRUE], c)
    IN  { Ok([s1 EXCEPT !.freeChunks = s.freeChunks \cup {c}], 0) }

\* Pool.AllocAndWrite of raw bytes: the chunk is freed again when the write
\* fails.
AllocAndWrite(s, b) ==
    Bind(Alloc(s, Len(b)), LAMBDA o :
        UNION { IF w.err = NoErr THEN { Ok(w.s, o.ret) }
                ELSE { Fail(f.s, w.err) : f \in ChunkFree(w.s, o.ret) }
                : w \in ChunkWrite(o.s, o.ret, Raw(b), Len(b)) })

\* Pool.Get: an error for a pointer that is no key of Pool.chunks.
GetErr(s, ptr) == IF ptr \in DOMAIN s.chunks THEN NoErr ELSE "chunk not found"

\* Chunk.ReadAll: size bytes from the payload start; [err, data].
ReadAll(s, c) ==
    [err  |-> streamRead(s, c + headerSize, s.chunks[c].size),
     data |-> s.disk[c].data]

\* Pool.Get followed by Chunk.ReadAll of raw bytes (KVNode.KeyBytes,
\* KVNode.ValueBytes): [err, b].  A chunk that holds a node is returned as
\* its 32 bytes, which equal no key or value of the model.
ReadBytes(s, ptr) ==
    IF GetErr(s, ptr) # NoErr THEN [err |-> GetErr(s, ptr), b |-> <<>>]
    ELSE LET r == ReadAll(s, ptr)
         IN  IF r.err # NoErr THEN [err |-> r.err, b |-> <<>>]
             ELSE IF r.data.t = "raw" THEN [err |-> NoErr, b |-> r.data.v]
             ELSE IF r.data.t = "node"
                  THEN [err |-> NoErr, b |-> <<-1>> \o r.data.v]
             ELSE [err |-> NoErr, b |-> <<-2>>]

(***************************************************************************)
(* KVNode: a node in memory is [ptr, prev, next, key, value], ptr being    *)
(* the position of its chunk.                                              *)
(***************************************************************************)
nilNode == [ptr |-> 0, prev |-> 0, next |-> 0, key |-> 0, value |-> 0]

\* A loop that only reads visits every chunk at most once unless it runs in
\* a cycle: after more steps than the pool has chunks it never ends.
ReadFuel(s) == Cardinality(DOMAIN s.chunks) + 1

\* Loops that also write get twice that many rounds.
WriteFuel(s) == 2 * Cardinality(DOMAIN s.chunks) + 2

\* NewKVNodeFromChunkPtr: Pool.Get, then KVNode.Read (Chunk.ReadAll and
\* binary.Read of four int64): [err, n].  Raw chunks of the model are shorter
\* than sizeKVNode, so binary.Read fails on them.
NewKVNodeFromChunkPtr(s, ptr) ==
    IF GetErr(s, ptr) # NoErr THEN [err |-> GetErr(s, ptr), n |-> nilNode]
    ELSE LET r == ReadAll(s, ptr)
         IN  IF r.err # NoErr THEN [err |-> r.err, n |-> nilNode]
             ELSE IF r.data.t = "node"
                  THEN [err |-> NoErr,
                        n |-> [ptr |-> ptr, prev |-> r.data.v[1],
                               next |-> r.data.v[2], key |-> r.data.v[3],
                               value |-> r.data.v[4]]]
             ELSE [err |-> "unexpected EOF", n |-> nilNode]

\* KVNode.Write into the node's chunk.
KVNodeWrite(s, n) == ChunkWrite(s, n.ptr, NodeData(n), sizeKVNode)

\* NewKVNode: a fresh head node, Prev = Next = 0; returns its pointer.
NewKVNode(s, key, value) ==
    Bind(Alloc(s, sizeKVNode), LAMBDA o :
        { [w EXCEPT !.ret = o.ret] :
            w \in KVNodeWrite(o.s, [ptr |-> o.ret, prev |-> 0, next |-> 0,
                                    key |-> key, value |-> value]) })

\* KVNode.SetValue: returns the pointer of the old value chunk.
SetValue(s, n, value) ==
    IF GetErr(s, n.value) # NoErr THEN { Fail(s, GetErr(s, n.value)) }
    ELSE { [w EXCEPT !.ret = n.value] :
             w \in KVNodeWrite(s, [n EXCEPT !.value = value]) }

\* KVNode.ListSize: counts along next; [err, size].
RECURSIVE listSizeLoop(_, _, _, _)
listSizeLoop(s, node, size, fuel) ==
    IF node.next = 0 THEN [err |-> NoErr, size |-> size]
    ELSE IF fuel = 0 THEN [err |-> "hang", size |-> size]
    ELSE LET r == NewKVNodeFromChunkPtr(s, node.next)
         IN  IF r.err # NoErr THEN [err |-> r.err, size |-> size]
             ELSE listSizeLoop(s, r.n, size + 1, fuel - 1)

\* A ListSize that counts the head alone.
ListSize_One(s, n) == [err |-> NoErr, size |-> 1]

ListSize(s, n) == listSizeLoop(s, n, 1, ReadFuel(s))

\* The walk to the last node in KVNode.Append: [err, n].
RECURSIVE lastNodeLoop(_, _, _)
lastNodeLoop(s, node, fuel) ==
    IF node.next = 0 THEN [err |-> NoErr, n |-> node]
    ELSE IF fuel = 0 THEN [err |-> "hang", n |-> node]
    ELSE LET r == NewKVNodeFromChunkPtr(s, node.next)
         IN  IF r.err # NoErr THEN r ELSE lastNodeLoop(s, r.n, fuel - 1)

\* KVNode.Append: the new node is written with Prev = the last node, then
\* the last node (as it was read before the allocation) with Next = the new
\* node.
KVNodeAppend(s, n, key, value) ==
    LET l == lastNodeLoop(s, n, ReadFuel(s))
    IN  IF l.err # NoErr THEN { Fail(s, l.err) }
        ELSE Bind(Alloc(s, sizeKVNode), LAMBDA o :
             Bind(KVNodeWrite(o.s, [ptr |-> o.ret, prev |-> l.n.ptr, next |-> 0,
                                    key |-> key, value |-> value]), LAMBDA w :
                  { [x EXCEPT !.ret = o.ret] :
                      x \in KVNodeWrite(w.s, [l.n EXCEPT !.next = o.ret]) }))

\* The walk to the head along prev in KVNode.Delete: [err, n].
RECURSIVE headLoop(_, _, _)
headLoop(s, node, fuel) ==
    IF node.prev = 0 THEN [err |-> NoErr, n |-> node]
    ELSE IF fuel = 0 THEN [err |-> "hang", n |-> node]
    ELSE LET r == NewKVNodeFromChunkPtr(s, node.prev)
         IN  IF r.err # NoErr THEN r ELSE headLoop(s, r.n, fuel - 1)

\* KVNode.Delete: returns the new head of the list.  The head is freed and
\* its successor gets Prev = 0; another node is unlinked by setting its
\* predecessor's Next, and freed.
KVNodeDelete(s, n) ==
    IF n.prev = 0
    THEN Bind(ChunkFree(s, n.ptr), LAMBDA f :
            IF n.next = 0 THEN { Ok(f.s, 0) }
            ELSE LET r == NewKVNodeFromChunkPtr(f.s, n.next)
                 IN  IF r.err # NoErr THEN { [Fail(f.s, r.err) EXCEPT !.ret = n.next] }
                     ELSE { [w EXCEPT !.ret = n.next] :
                              w \in KVNodeWrite(f.s, [r.n EXCEPT !.prev = 0]) })
    ELSE LET h == headLoop(s, n, ReadFuel(s))
         IN  IF h.err # NoErr THEN { Fail(s, h.err) }
             ELSE LET prev == NewKVNodeFromChunkPtr(s, n.prev).n
                  IN  Bind(KVNodeWrite(s, [prev EXCEPT !.next = n.next]), LAMBDA w :
                           { [f EXCEPT !.ret = h.n.ptr] : f \in ChunkFree(w.s, n.ptr) })

\* KVNode.DeleteAll: deletes the head until the list is empty.
RECURSIVE deleteAllLoop(_, _, _)
deleteAllLoop(s, n, fuel) ==
    IF fuel = 0 THEN { Fail(s, "hang") }
    ELSE Bind(KVNodeDelete(s, n), LAMBDA d :
            IF d.ret = 0 THEN { Ok(d.s, 0) }
            ELSE LET r == NewKVNodeFromChunkPtr(d.s, d.ret)
                 IN  IF r.err # NoErr THEN { Fail(d.s, r.err) }
                     ELSE deleteAllLoop(d.s, r.n, fuel - 1))

DeleteAll(s, n) ==
    IF n.prev # 0 THEN { Fail(s, "not the head node") }
    ELSE deleteAllLoop(s, n, WriteFuel(s))

(***************************************************************************)
(* hashBuckets / hashBucket.  A bucket b is [pos, idx, Type, Head]: slot   *)
(* idx of the bucket array stored in the chunk at pos.  The root array     *)
(* (chunk 0) is kept in memory as s.head; a child array is read from its   *)
(* chunk whenever it is walked through.                                    *)
(***************************************************************************)
nilBucket == [pos |-> 0, idx |-> 0, Type |-> bucketTypeList, Head |-> 0]

\* hashBuckets.ReadFrom: [err, slots].
ReadFrom(s, c) ==
    LET r == ReadAll(s, c)
    IN  IF r.err # NoErr THEN [err |-> r.err, slots |-> emptyBuckets]
        ELSE IF r.data.t # "bb" \/ s.chunks[c].size # sizeHashBuckets
             THEN [err |-> "expected to read sizeHashBuckets bytes",
                   slots |-> emptyBuckets]
        ELSE [err |-> NoErr, slots |-> r.data.v]

\* hashBuckets.findBucket on the array slots of chunk pos: [err, b].
RECURSIVE findBucket(_, _, _, _, _)
findBucket(s, pos, slots, key, fuel) ==
    LET idx  == bucketIdx(pos, key)
        slot == slots[idx]
    IN  IF slot.Type = bucketTypeList
        THEN [err |-> NoErr,
              b |-> [pos |-> pos, idx |-> idx, Type |-> slot.Type, Head |-> slot.Head]]
        ELSE IF slot.Type # bucketTypeBuckets
             THEN [err |-> "invalid bucket type", b |-> nilBucket]
        ELSE IF fuel = 0 THEN [err |-> "hang", b |-> nilBucket]
        ELSE IF GetErr(s, slot.Head) # NoErr
             THEN [err |-> GetErr(s, slot.Head), b |-> nilBucket]
        ELSE LET r == ReadFrom(s, slot.Head)
             IN  IF r.err # NoErr THEN [err |-> r.err, b |-> nilBucket]
                 ELSE findBucket(s, slot.Head, r.slots, key, fuel - 1)

\* m.headBuckets.findBucket(key).
findRootBucket(s, key) == findBucket(s, 0, s.head, key, ReadFuel(s))

\* hashBucket.Write after b.Type and b.Head were assigned: Chunk.WriteAt of
\* the nine bytes of slot idx; the root's slot is the one in memory.
bucketWrite(s, b) ==
    LET off  == b.idx * sizeHashBucket
        slot == [Type |-> b.Type, Head |-> b.Head]
        s0   == IF b.pos = 0 THEN [s EXCEPT !.head[b.idx] = slot] ELSE s
    IN  IF off + sizeHashBucket > s0.chunks[b.pos].cap
        THEN { Fail(s0, "chunk too small") }
        ELSE LET s1 == IF off + sizeHashBucket > s0.chunks[b.pos].size
                       THEN writeHeader([s0 EXCEPT !.chunks[b.pos].size =
                                                     off + sizeHashBucket], b.pos)
                       ELSE s0
             IN  { Ok([s1 EXCEPT !.disk[b.pos].data.v[b.idx] = slot], 0) }

\* findHashMapItem from the node n: [err, found, n].
RECURSIVE findHashMapItem(_, _, _, _)
findHashMapItem(s, n, needle, fuel) ==
    LET k == ReadBytes(s, n.key)
    IN  IF k.err # NoErr THEN [err |-> k.err, found |-> FALSE, n |-> nilNode]
        ELSE IF k.b = needle THEN [err |-> NoErr, found |-> TRUE, n |-> n]
        ELSE IF n.next = 0 THEN [err |-> NoErr, found |-> FALSE, n |-> nilNode]
        ELSE IF fuel = 0 THEN [err |-> "hang", found |-> FALSE, n |-> nilNode]
        ELSE LET r == NewKVNodeFromChunkPtr(s, n.next)
             IN  IF r.err # NoErr
                 THEN [err |-> r.err, found |-> FALSE, n |-> nilNode]
                 ELSE findHashMapItem(s, r.n, needle, fuel - 1)

\* hashBucket.findHashMapItem: from the head of the bucket's list.
bucketFindItem(s, b, needle) ==
    LET h == NewKVNodeFromChunkPtr(s, b.Head)
    IN  IF h.err # NoErr THEN [err |-> h.err, found |-> FALSE, n |-> nilNode]
        ELSE findHashMapItem(s, h.n, needle, ReadFuel(s))

\* An Append that never splits: the pair goes to the end of the list however
\* long the list is.
bucketAppend_NoSplit(s, b, keyBytes, key, value, fuel) ==
    IF b.Type # bucketTypeList THEN { Fail(s, "cannot append to bucket") }
    ELSE IF b.Head = 0
    THEN Bind(NewKVNode(s, key, value), LAMBDA o :
              bucketWrite(o.s, [b EXCEPT !.Head = o.ret]))
    ELSE LET h == NewKVNodeFromChunkPtr(s, b.Head)
         IN  IF h.err # NoErr THEN { Fail(s, h.err) }
             ELSE { [o EXCEPT !.ret = 0] : o \in KVNodeAppend(s, h.n, key, value) }

\* hashBucket.Append, with the split of a list of HashMapMaxList nodes into a
\* child bucket array: the nodes of the list are appended to the child array
\* one by one (splitLoop), then the new pair, then the slot is turned into a
\* Buckets slot and the old list is deleted.
RECURSIVE bucketAppend(_, _, _, _, _, _)
RECURSIVE splitLoop(_, _, _, _)
splitLoop(s, pos, node, fuel) ==
    LET k == ReadBytes(s, node.key)
    IN  IF k.err # NoErr THEN { Fail(s, k.err) }
        ELSE IF fuel = 0 THEN { Fail(s, "hang") }
        ELSE LET fb == findBucket(s, pos, s.disk[pos].data.v, k.b, ReadFuel(s))
             IN  IF fb.err # NoErr THEN { Fail(s, fb.err) }
                 ELSE Bind(bucketAppend(s, fb.b, k.b, node.key, node.value, fuel - 1),
                           LAMBDA a :
                             IF node.next = 0 THEN { Ok(a.s, 0) }
                             ELSE LET r == NewKVNodeFromChunkPtr(a.s, node.next)
                                  IN  IF r.err # NoErr THEN { Fail(a.s, r.err) }
                                      ELSE splitLoop(a.s, pos, r.n, fuel - 1))

bucketAppend(s, b, keyBytes, key, value, fuel) ==
    IF b.Type # bucketTypeList THEN { Fail(s, "cannot append to bucket") }
    ELSE IF b.Head = 0
    THEN Bind(NewKVNode(s, key, value), LAMBDA o :
              bucketWrite(o.s, [b EXCEPT !.Head = o.ret]))
    ELSE LET h == NewKVNodeFromChunkPtr(s, b.Head)
             z == ListSize(s, h.n)
         IN  IF h.err # NoErr THEN { Fail(s, h.err) }
             ELSE IF z.err # NoErr THEN { Fail(s, z.err) }
             ELSE IF z.size < HashMapMaxList
             THEN { [o EXCEPT !.ret = 0] : o \in KVNodeAppend(s, h.n, key, value) }
             ELSE IF fuel = 0 THEN { Fail(s, "hang") }
             ELSE
               Bind(Alloc(s, sizeHashBuckets), LAMBDA c :
               Bind(ChunkWrite(c.s, c.ret, BBData(emptyBuckets), sizeHashBuckets),
                    LAMBDA w :
               Bind(splitLoop(w.s, c.ret, h.n, fuel - 1), LAMBDA l :
                 LET fb == findBucket(l.s, c.ret, l.s.disk[c.ret].data.v, keyBytes,
                                      ReadFuel(l.s))
                 IN  IF fb.err # NoErr THEN { Fail(l.s, fb.err) }
                     ELSE
               Bind(bucketAppend(l.s, fb.b, keyBytes, key, value, fuel - 1), LAMBDA a :
               Bind(bucketWrite(a.s, [b EXCEPT !.Type = bucketTypeBuckets,
                                               !.Head = c.ret]), LAMBDA x :
                    DeleteAll(x.s, h.n))))))

\* hashBucket.Upsert: an empty list or a list without the key gets a key
\* chunk and a new node; a node with the key gets the new value and its old
\* value chunk is freed.
bucketUpsert(s, b, key, value) ==
    IF b.Head = 0
    THEN Bind(AllocAndWrite(s, key), LAMBDA k :
              bucketAppend(k.s, b, key, k.ret, value, WriteFuel(k.s)))
    ELSE LET f == bucketFindItem(s, b, key)
         IN  IF f.err # NoErr THEN { Fail(s, f.err) }
             ELSE IF ~f.found
             THEN Bind(AllocAndWrite(s, key), LAMBDA k :
                       bucketAppend(k.s, b, key, k.ret, value, WriteFuel(k.s)))
             ELSE Bind(SetValue(s, f.n, value), LAMBDA o :
                       IF GetErr(o.s, o.ret) # NoErr
                       THEN { Fail(o.s, GetErr(o.s, o.ret)) }
                       ELSE ChunkFree(o.s, o.ret))

\* hashBuckets.Upsert on the root array.
Upsert(s, key, value) ==
    LET fb == findRootBucket(s, key)
    IN  IF fb.err # NoErr THEN { Fail(s, fb.err) }
        ELSE bucketUpsert(s, fb.b, key, value)

(***************************************************************************)
(* HashMap.                                                                *)
(***************************************************************************)
\* NewPool: the scan of the stream from offset 0, header by header, each
\* followed by a seek over cap bytes, until the header read meets the end.
RECURSIVE scanChunks(_, _, _)
scanChunks(disk, flen, pos) ==
    IF pos >= flen \/ pos \notin DOMAIN disk THEN << >>
    ELSE (pos :> [cap |-> disk[pos].cap, size |-> disk[pos].size,
                  free |-> disk[pos].free])
         @@ scanChunks(disk, flen, pos + headerSize + disk[pos].cap)

NewPool(disk, flen) ==
    LET cc == scanChunks(disk, flen, 0)
    IN  [disk |-> disk, flen |-> flen, chunks |-> cc,
         freeChunks |-> { c \in DOMAIN cc : cc[c].free }]

\* The HashMap made of a pool and its root bucket array in memory.
WithHead(p, slots) ==
    [disk |-> p.disk, flen |-> p.flen, chunks |-> p.chunks,
     freeChunks |-> p.freeChunks, head |-> slots]

\* NewHashMap over a stream: an empty pool gets the root bucket array as
\* its first chunk; otherwise the root array is read from the chunk at 0.
NewHashMap(disk, flen) ==
    LET p == NewPool(disk, flen)
        failed(q, e) == Fail(WithHead(q, emptyBuckets), e)
    IN  IF Cardinality(DOMAIN p.chunks) = 0
        THEN { IF w.err = NoErr THEN Ok(WithHead(w.s, emptyBuckets), 0)
               ELSE failed(w.s, w.err) :
                 w \in Bind(Alloc(p, sizeHashBuckets), LAMBDA c :
                          ChunkWrite(c.s, c.ret, BBData(emptyBuckets),
                                     sizeHashBuckets)) }
        ELSE IF GetErr(p, 0) # NoErr THEN { failed(p, GetErr(p, 0)) }
        ELSE LET r == ReadFrom(p, 0)
             IN  IF r.err # NoErr THEN { failed(p, r.err) }
                 ELSE { Ok(WithHead(p, r.slots), 0) }

\* HashMap.Store.
Store(s, key, value) ==
    Bind(AllocAndWrite(s, value), LAMBDA v : Upsert(v.s, key, v.ret))

\* A Delete that takes the head of the list for a key the list lacks.
Delete_Head(s, key) ==
    LET fb == findRootBucket(s, key)
    IN  IF fb.err # NoErr THEN { Fail(s, fb.err) }
        ELSE IF fb.b.Head = 0 THEN { Fail(s, "key not found") }
        ELSE LET f == bucketFindItem(s, fb.b, key)
                 n == IF f.found THEN f.n
                      ELSE NewKVNodeFromChunkPtr(s, fb.b.Head).n
             IN  IF f.err # NoErr THEN { Fail(s, f.err) }
                 ELSE Bind(KVNodeDelete(s, n), LAMBDA d :
                           bucketWrite(d.s, [fb.b EXCEPT !.Head = d.ret]))

\* HashMap.Delete.
Delete(s, key) ==
    LET fb == findRootBucket(s, key)
    IN  IF fb.err # NoErr THEN { Fail(s, fb.err) }
        ELSE IF fb.b.Head = 0 THEN { Fail(s, "key not found") }
        ELSE LET f == bucketFindItem(s, fb.b, key)
             IN  IF f.err # NoErr THEN { Fail(s, f.err) }
                 ELSE IF ~f.found THEN { Fail(s, "key not found") }
                 ELSE Bind(KVNodeDelete(s, f.n), LAMBDA d :
                           bucketWrite(d.s, [fb.b EXCEPT !.Head = d.ret]))

\* HashMap.Load: [val, found, err].  It changes nothing.
Load(s, key) ==
    LET nf(e) == [val |-> <<>>, found |-> FALSE, err |-> e]
        fb == findRootBucket(s, key)
    IN  IF fb.err # NoErr THEN nf(fb.err)
        ELSE IF fb.b.Head = 0 THEN nf(NoErr)
        ELSE LET f == bucketFindItem(s, fb.b, key)
             IN  IF f.err # NoErr THEN nf(f.err)
                 ELSE IF ~f.found THEN nf(NoErr)
                 ELSE LET v == ReadBytes(s, f.n.value)
                      IN  IF v.err # NoErr
                          THEN [val |-> <<>>, found |-> TRUE, err |-> v.err]
                          ELSE [val |-> v.b, found |-> TRUE, err |-> NoErr]

\* HashMap.Range with a visitor that returns true: [err, seen], seen being
\* the sequence of the visited <<key, value>> pairs.  It changes nothing.
\* The callback of rangeKeyValues on one list:
RECURSIVE rangeList(_, _, _, _)
rangeList(s, n, seen, fuel) ==
    LET k == ReadBytes(s, n.key)
        v == ReadBytes(s, n.value)
    IN  IF k.err # NoErr THEN [err |-> k.err, seen |-> seen]
        ELSE IF v.err # NoErr THEN [err |-> v.err, seen |-> seen]
        ELSE IF n.next = 0 THEN [err |-> NoErr, seen |-> Append(seen, <<k.b, v.b>>)]
        ELSE IF fuel = 0 THEN [err |-> "hang", seen |-> seen]
        ELSE LET r == NewKVNodeFromChunkPtr(s, n.next)
             IN  IF r.err # NoErr
                 THEN [err |-> r.err, seen |-> Append(seen, <<k.b, v.b>>)]
                 ELSE rangeList(s, r.n, Append(seen, <<k.b, v.b>>), fuel - 1)

\* HashMap.iterateBuckets2 under that callback: the slots of an array in
\* order from the slot i on, a Buckets slot followed by its child array.  The
\* loop passes over empty list slots and slots of an unknown type, so the
\* next slot it acts on is the first one at or after i that is neither.
RECURSIVE iterateBuckets2(_, _, _, _, _)
iterateBuckets2(s, slots, i, seen, fuel) ==
    LET used == { j \in i .. HashMapN - 1 :
                    \/ slots[j].Type = bucketTypeList /\ slots[j].Head # 0
                    \/ slots[j].Type = bucketTypeBuckets }
        k    == CHOOSE j \in used : \A x \in used : j <= x
        b    == slots[k]
    IN  IF used = {} THEN [err |-> NoErr, seen |-> seen]
        ELSE IF b.Type = bucketTypeList
        THEN LET h == NewKVNodeFromChunkPtr(s, b.Head)
                 l == rangeList(s, h.n, seen, ReadFuel(s))
             IN  IF h.err # NoErr THEN [err |-> h.err, seen |-> seen]
                 ELSE IF l.err # NoErr THEN l
                 ELSE iterateBuckets2(s, slots, k + 1, l.seen, fuel)
        ELSE IF fuel = 0 THEN [err |-> "hang", seen |-> seen]
        ELSE IF GetErr(s, b.Head) # NoErr
        THEN [err |-> GetErr(s, b.Head), seen |-> seen]
        ELSE LET r == ReadFrom(s, b.Head)
                 c == iterateBuckets2(s, r.slots, 0, seen, fuel - 1)
             IN  IF r.err # NoErr THEN [err |-> r.err, seen |-> seen]
                 ELSE IF c.err # NoErr THEN c
                 ELSE iterateBuckets2(s, slots, k + 1, c.seen, fuel)

Range(s) == iterateBuckets2(s, s.head, 0, << >>, ReadFuel(s))

(***************************************************************************)
(* Part II  block: the block file (BlockDB) and the objects in it (Object).*)
(*          Specification SpecBlock.                                       *)
(*                                                                         *)
(* A block file d is a record                                              *)
(*   fmeta    : [BlockCount, FirstFreeBlock], the header as the file holds *)
(*              it                                                         *)
(*   blk      : block index -> [End, Next, data], the blocks of the file:  *)
(*              the block header and the blockCap payload bytes            *)
(*   meta     : BlockDB.meta in memory, [BlockCount, FirstFreeBlock]       *)
(*   objects  : BlockDB.objects, name -> [StartBlock, chunk]               *)
(*   indexObj : the blocks of BlockDB.indexObj in memory                   *)
(*   index    : BlockDB.index, the pool over the index object; its disk    *)
(*              and flen are the bytes of the index object, whose blocks   *)
(*              in blk carry zeros in their place                          *)
(* A block header in memory (BlockMeta) is [idx, End, Next]; an object in  *)
(* memory is [blocks, offset, posBlockIdx, posBlockOff], blocks being the  *)
(* sequence of its BlockMeta.  Block operations yield one outcome, a       *)
(* record with err and the changed parts.                                  *)
(***************************************************************************)
\* The block size the file is created with (WithBlockSize); the source's
\* default is 4096 and its minimum sizeBlockMeta + 1.
BlockSize == 11

\* DBMeta.Size(): Magic, Version, BlockSize, BlockCount and FirstFreeBlock,
\* uint32 each.
sizeDBMeta == 20

\* BlockMeta.Size(): End uint32 + Next uint32.
sizeBlockMeta == 8

\* Payload bytes of one block.
blockCap == BlockSize - sizeBlockMeta

Min(a, b) == IF a < b THEN a ELSE b

zeros(n) == [i \in 1 .. n |-> 0]

nilBlock == [idx |-> 0, End |-> 0, Next |-> 0]

NewObject(blocks) ==
    [blocks |-> blocks, offset |-> 0, posBlockIdx |-> 0, posBlockOff |-> 0]

nilObject == NewObject(<< nilBlock >>)

\* Seek to the block idx and BlockMeta.ReadFrom: [err, b].  A block after the
\* last one of the file cannot be read.
readMeta(d, idx) ==
    IF idx \in DOMAIN d.blk
    THEN [err |-> NoErr,
          b |-> [idx |-> idx, End |-> d.blk[idx].End, Next |-> d.blk[idx].Next]]
    ELSE [err |-> "EOF", b |-> nilBlock]

\* A walk along Next visits every block at most once unless it runs in a
\* cycle.
BlockFuel(d) == Cardinality(DOMAIN d.blk) + 1

\* DBMeta.WriteFirstFreeBlock after db.meta.FirstFreeBlock was assigned.
setFirstFreeBlock(d, idx) ==
    [d EXCEPT !.meta.FirstFreeBlock = idx, !.fmeta.FirstFreeBlock = idx]

\* BlockMeta.WriteNext of the block b with its Next assigned.
writeNext(d, idx, next) == [d EXCEPT !.blk[idx].Next = next]

\* A WriteEnd that leaves the End of the block in the file as it was.
writeEnd_Skip(d, idx, end) == d

\* BlockMeta.WriteEnd of the block b with its End assigned.
writeEnd(d, idx, end) == [d EXCEPT !.blk[idx].End = end]

\* BlockDB.findLastFreeBlock: [err, idx].
RECURSIVE lastFreeLoop(_, _, _)
lastFreeLoop(d, idx, fuel) ==
    LET r == readMeta(d, idx)
    IN  IF r.err # NoErr THEN [err |-> r.err, idx |-> 0]
        ELSE IF r.b.Next # 0
        THEN IF fuel = 0 THEN [err |-> "hang", idx |-> 0]
             ELSE lastFreeLoop(d, r.b.Next, fuel - 1)
        ELSE IF idx = 0
        THEN [err |-> "last free block cannot be at position 0", idx |-> 0]
        ELSE [err |-> NoErr, idx |-> idx]

findLastFreeBlock(d) == lastFreeLoop(d, d.meta.FirstFreeBlock, BlockFuel(d))

\* BlockDB.countFreeBlocks: the blocks met from FirstFreeBlock along Next up
\* to a block with Next = 0; [err, count].
RECURSIVE countLoop(_, _, _, _)
countLoop(d, idx, count, fuel) ==
    LET r == readMeta(d, idx)
    IN  IF r.err # NoErr THEN [err |-> r.err, count |-> 0]
        ELSE IF r.b.Next = 0 THEN [err |-> NoErr, count |-> count + 1]
        ELSE IF fuel = 0 THEN [err |-> "hang", count |-> 0]
        ELSE countLoop(d, r.b.Next, count + 1, fuel - 1)

countFreeBlocks(d) ==
    IF d.meta.FirstFreeBlock = 0 THEN [err |-> NoErr, count |-> 0]
    ELSE countLoop(d, d.meta.FirstFreeBlock, 0, BlockFuel(d))

\* BlockDB.Stats: [err, FreeBlocks, Objects].
Stats(d) ==
    [err        |-> countFreeBlocks(d).err,
     FreeBlocks |-> countFreeBlocks(d).count,
     Objects    |-> Cardinality(DOMAIN d.objects)]

\* The Go panic of an index past the end of a slice: the program ends.
panicIndex == "panic: index out of range"

\* BlockDB.grow that writes the new blocks and leaves BlockCount as it is.
grow_StaleCount(d, n, free) ==
    LET bc == d.meta.BlockCount
    IN  [d   |-> [d EXCEPT !.blk =
                     [i \in bc .. bc + n - 1 |->
                        [End |-> 0, Next |-> 0, data |-> zeros(blockCap)]]
                     @@ d.blk],
         err |-> NoErr,
         mm  |-> [i \in 1 .. n |-> [idx |-> bc + i - 1, End |-> 0, Next |-> 0]]]

\* BlockDB.grow: n zeroed blocks at the end of the file, chained by Next, and
\* the new BlockCount; with free they are put behind the last free block.
\* [d, err, mm], mm being the new BlockMeta.
grow(d, n, free) ==
    LET bc  == d.meta.BlockCount
        new == [i \in bc .. bc + n - 1 |->
                  [End |-> 0, Next |-> IF i = bc + n - 1 THEN 0 ELSE i + 1,
                   data |-> zeros(blockCap)]]
        mm  == [i \in 1 .. n |->
                  [idx |-> bc + i - 1, End |-> 0,
                   Next |-> IF i = n THEN 0 ELSE bc + i]]
        d1  == [d EXCEPT !.blk = new @@ d.blk,
                         !.meta.BlockCount = bc + n,
                         !.fmeta.BlockCount = bc + n]
    IN  IF ~free THEN [d |-> d1, err |-> NoErr, mm |-> mm]
        ELSE IF d1.meta.FirstFreeBlock = 0
        THEN [d |-> setFirstFreeBlock(d1, bc), err |-> NoErr, mm |-> << >>]
        ELSE LET l == findLastFreeBlock(d1)
             IN  IF l.err # NoErr THEN [d |-> d1, err |-> l.err, mm |-> << >>]
                 ELSE IF n = 0
                 THEN [d |-> d1, err |-> panicIndex,
                       mm |-> << >>]
                 ELSE [d |-> writeNext(writeEnd(d1, l.idx, 0), l.idx, bc),
                       err |-> NoErr, mm |-> << >>]

\* A free that stops after the first block of the chain.
free_FirstOnly(d, idx, fuel) ==
    LET r == readMeta(d, idx)
    IN  IF r.err # NoErr THEN [d |-> d, err |-> r.err]
        ELSE [d |-> setFirstFreeBlock(
                        writeNext(writeEnd(d, idx, 0), idx,
                                  d.meta.FirstFreeBlock), idx),
              err |-> NoErr]

\* BlockDB.free: the block idx and the blocks after it in its chain are put
\* at the head of the free list one by one.  [d, err].
RECURSIVE free(_, _, _)
free(d, idx, fuel) ==
    LET r  == readMeta(d, idx)
        d1 == setFirstFreeBlock(
                  writeNext(writeEnd(d, idx, 0), idx, d.meta.FirstFreeBlock),
                  idx)
    IN  IF r.err # NoErr THEN [d |-> d, err |-> r.err]
        ELSE IF r.b.Next = 0 THEN [d |-> d1, err |-> NoErr]
        ELSE IF fuel = 0 THEN [d |-> d1, err |-> "hang"]
        ELSE free(d1, r.b.Next, fuel - 1)

\* An allocSingle that never looks at the free list.
allocSingle_AlwaysGrow(d) ==
    LET g == grow(d, 1, FALSE)
    IN  [d |-> g.d, err |-> g.err, b |-> g.mm[1]]

\* BlockDB.allocSingle: the first free block, or a new one.  [d, err, b].
allocSingle(d) ==
    IF d.meta.FirstFreeBlock # 0
    THEN LET r == readMeta(d, d.meta.FirstFreeBlock)
         IN  IF r.err # NoErr THEN [d |-> d, err |-> r.err, b |-> nilBlock]
             ELSE [d |-> writeNext(setFirstFreeBlock(d, r.b.Next), r.b.idx, 0),
                   err |-> NoErr, b |-> [r.b EXCEPT !.Next = 0]]
    ELSE LET g == grow(d, 1, FALSE)
         IN  [d |-> g.d, err |-> g.err, b |-> g.mm[1]]

\* BlockDB.blocks: the BlockMeta of the chain that starts at the block start.
\* [err, bb].
RECURSIVE blocksLoop(_, _, _, _)
blocksLoop(d, idx, bb, fuel) ==
    LET r == readMeta(d, idx)
    IN  IF r.err # NoErr THEN [err |-> r.err, bb |-> bb]
        ELSE IF r.b.Next = 0 THEN [err |-> NoErr, bb |-> Append(bb, r.b)]
        ELSE IF fuel = 0 THEN [err |-> "hang", bb |-> bb]
        ELSE blocksLoop(d, r.b.Next, Append(bb, r.b), fuel - 1)

blocks(d, start) == blocksLoop(d, start, << >>, BlockFuel(d))

(***************************************************************************)
(* Object.                                                                 *)
(***************************************************************************)
\* Object.size: the sum of End over the blocks in memory.
RECURSIVE sumEnd(_, _)
sumEnd(bb, k) == IF k = 0 THEN 0 ELSE bb[k].End + sumEnd(bb, k - 1)

size(o) == sumEnd(o.blocks, Len(o.blocks))

\* A first loop of Object.alloc that takes no free block.
takeFree_None(d, next, n, taken) ==
    [err |-> NoErr, taken |-> taken, next |-> next, n |-> n]

\* The first loop of Object.alloc: up to n blocks along the free list.
\* [err, taken, next, n].
RECURSIVE takeFree(_, _, _, _)
takeFree(d, next, n, taken) ==
    IF n = 0 \/ next = 0
    THEN [err |-> NoErr, taken |-> taken, next |-> next, n |-> n]
    ELSE LET r == readMeta(d, next)
         IN  IF r.err # NoErr
             THEN [err |-> r.err, taken |-> taken, next |-> next, n |-> n]
             ELSE takeFree(d, r.b.Next, n - 1, Append(taken, r.b))

\* Object.alloc: n more blocks behind the last block of o, free blocks first
\* and new blocks for the rest.  [d, o, err].
alloc(d, o, n) ==
    LET tail == Len(o.blocks)
        grown(d2, o2, g) ==
            LET end == Len(o2.blocks)
            IN  IF g.err # NoErr THEN [d |-> g.d, o |-> o2, err |-> g.err]
                ELSE [d |-> writeNext(g.d, o2.blocks[end].idx, g.mm[1].idx),
                      o |-> [o2 EXCEPT !.blocks =
                                [o2.blocks EXCEPT ![end].Next = g.mm[1].idx]
                                \o g.mm],
                      err |-> NoErr]
        linked(t, d2, o2) ==
            IF Len(t.taken) > 0 /\ t.n = 0
            THEN [d |-> d2, o |-> o2, err |-> NoErr]
            ELSE grown(d2, o2, grow(d2, t.n, FALSE))
        taken(t) ==
            LET k == Len(t.taken)
            IN  IF t.err # NoErr THEN [d |-> d, o |-> o, err |-> t.err]
                ELSE IF k > 0
                THEN linked(t,
                         writeNext(
                             writeNext(setFirstFreeBlock(d, t.next),
                                       t.taken[k].idx, 0),
                             o.blocks[tail].idx, t.taken[1].idx),
                         [o EXCEPT !.blocks =
                             [o.blocks EXCEPT ![tail].Next = t.taken[1].idx]
                             \o [t.taken EXCEPT ![k].Next = 0]])
                ELSE linked(t, d, o)
    IN  taken(takeFree(d, d.meta.FirstFreeBlock, n, << >>))

\* p written over the payload of the block idx from the offset off on.
writeData(d, idx, off, p) ==
    [d EXCEPT !.blk[idx].data =
        [i \in 1 .. blockCap |->
            IF i > off /\ i <= off + Len(p) THEN p[i - off] ELSE @[i]]]

\* Object.read of len(p) = len bytes: [o, err, n, p].
RECURSIVE read(_, _, _)
read(d, o, len) ==
    LET bm      == o.blocks[o.posBlockIdx + 1]
        canRead == Min(bm.End - o.posBlockOff, len)
        off     == o.posBlockOff + canRead
        o1      == [o EXCEPT !.offset = @ + canRead,
                             !.posBlockOff = off]
        o2      == IF off = bm.End /\ bm.Next # 0
                   THEN [o1 EXCEPT !.posBlockIdx = @ + 1, !.posBlockOff = 0]
                   ELSE o1
        got     == SubSeq(d.blk[bm.idx].data, o.posBlockOff + 1, off)
        r       == read(d, o2, len - canRead)
    IN  IF o.posBlockOff = bm.End
        THEN [o |-> o, err |-> "EOF", n |-> 0, p |-> << >>]
        ELSE IF len - canRead = 0
        THEN [o |-> o2, err |-> NoErr, n |-> canRead, p |-> got]
        ELSE [o |-> r.o, err |-> r.err, n |-> canRead + r.n, p |-> got \o r.p]

\* A write that asks for one block more than Object.write does.
RECURSIVE write_ExtraBlock(_, _, _)
write_ExtraBlock(d, o, p) ==
    LET bm       == o.blocks[o.posBlockIdx + 1]
        canWrite == Min(blockCap - o.posBlockOff, Len(p))
        off      == o.posBlockOff + canWrite
        rest     == SubSeq(p, canWrite + 1, Len(p))
        n        == IF Len(rest) \div BlockSize = 0 THEN 1
                    ELSE Len(rest) \div BlockSize
        o1       == [o EXCEPT !.offset = @ + canWrite, !.posBlockOff = off]
        more(w)  == [d |-> w.d, o |-> w.o, err |-> w.err, n |-> canWrite + w.n]
        next(d2, o2, a) ==
            IF off = blockCap /\ a.err # NoErr
            THEN [d |-> a.d, o |-> a.o, err |-> a.err, n |-> canWrite]
            ELSE IF off = blockCap
            THEN more(write_ExtraBlock(a.d, [a.o EXCEPT !.posBlockIdx = @ + 1,
                                             !.posBlockOff = 0], rest))
            ELSE more(write_ExtraBlock(d2, o2, rest))
        written(d2, o2) ==
            IF Len(rest) = 0
            THEN [d |-> d2, o |-> o2, err |-> NoErr, n |-> canWrite]
            ELSE IF bm.Next = 0 THEN next(d2, o2, alloc(d2, o2, n + 1))
            ELSE next(d2, o2, [d |-> d2, o |-> o2, err |-> NoErr])
        ended(d1) ==
            IF off > bm.End
            THEN written(writeEnd(d1, bm.idx, off),
                         [o1 EXCEPT !.blocks[o.posBlockIdx + 1].End = off])
            ELSE written(d1, o1)
    IN  ended(writeData(d, bm.idx, o.posBlockOff, SubSeq(p, 1, canWrite)))

\* Object.write of the bytes p: [d, o, err, n].
RECURSIVE write(_, _, _)
write(d, o, p) ==
    LET bm       == o.blocks[o.posBlockIdx + 1]
        canWrite == Min(blockCap - o.posBlockOff, Len(p))
        off      == o.posBlockOff + canWrite
        rest     == SubSeq(p, canWrite + 1, Len(p))
        n        == IF Len(rest) \div BlockSize = 0 THEN 1
                    ELSE Len(rest) \div BlockSize
        o1       == [o EXCEPT !.offset = @ + canWrite, !.posBlockOff = off]
        more(w)  == [d |-> w.d, o |-> w.o, err |-> w.err, n |-> canWrite + w.n]
        next(d2, o2, a) ==
            IF off = blockCap /\ a.err # NoErr
            THEN [d |-> a.d, o |-> a.o, err |-> a.err, n |-> canWrite]
            ELSE IF off = blockCap
            THEN more(write(a.d, [a.o EXCEPT !.posBlockIdx = @ + 1,
                                             !.posBlockOff = 0], rest))
            ELSE more(write(d2, o2, rest))
        written(d2, o2) ==
            IF Len(rest) = 0
            THEN [d |-> d2, o |-> o2, err |-> NoErr, n |-> canWrite]
            ELSE IF bm.Next = 0 THEN next(d2, o2, alloc(d2, o2, n))
            ELSE next(d2, o2, [d |-> d2, o |-> o2, err |-> NoErr])
        ended(d1) ==
            IF off > bm.End
            THEN written(writeEnd(d1, bm.idx, off),
                         [o1 EXCEPT !.blocks[o.posBlockIdx + 1].End = off])
            ELSE written(d1, o1)
    IN  ended(writeData(d, bm.idx, o.posBlockOff, SubSeq(p, 1, canWrite)))

\* Object.seekFromRelativeBack: [o, err, ret].  With offset < 0 (Seek from the
\* end with a negative offset) canRead becomes uint32(offset) = 2^32 + offset,
\* posBlockOff wraps around to posBlockOff - offset and the offset left is
\* -2^32; from then on canRead = uint32(-2^32) = 0 in every round, nothing
\* changes and the recursion never returns.
RECURSIVE seekFromRelativeBack(_, _)
seekFromRelativeBack(o, offset) ==
    LET canRead == Min(o.posBlockOff, offset)
        off     == o.posBlockOff - canRead
        o1      == [o EXCEPT !.offset = @ - canRead, !.posBlockOff = off]
        o2      == IF off = 0 /\ o.posBlockIdx # 0
                   THEN [o1 EXCEPT !.posBlockIdx = @ - 1,
                                   !.posBlockOff = o.blocks[o.posBlockIdx].End]
                   ELSE o1
    IN  IF offset = 0 THEN [o |-> o, err |-> NoErr, ret |-> o.offset]
        ELSE IF o.posBlockOff = 0 /\ o.posBlockIdx = 0
        THEN [o |-> o, err |-> "EOF", ret |-> 0]
        ELSE IF offset < 0
        THEN [o |-> [o EXCEPT !.posBlockOff = @ - offset],
              err |-> "hang", ret |-> 0]
        ELSE IF offset - canRead = 0
        THEN [o |-> o2, err |-> NoErr, ret |-> o2.offset]
        ELSE seekFromRelativeBack(o2, offset - canRead)

\* Object.seekFromRelative: [o, err, ret].
RECURSIVE seekFromRelative(_, _)
seekFromRelative(o, offset) ==
    LET bm      == o.blocks[o.posBlockIdx + 1]
        canRead == Min(bm.End - o.posBlockOff, offset)
        off     == o.posBlockOff + canRead
        o1      == [o EXCEPT !.offset = @ + canRead, !.posBlockOff = off]
        o2      == IF off = bm.End /\ bm.Next # 0
                   THEN [o1 EXCEPT !.posBlockIdx = @ + 1, !.posBlockOff = 0]
                   ELSE o1
    IN  IF offset < 0 THEN seekFromRelativeBack(o, 0 - offset)
        ELSE IF offset = 0 THEN [o |-> o, err |-> NoErr, ret |-> o.offset]
        ELSE IF o.posBlockOff = bm.End THEN [o |-> o, err |-> "EOF", ret |-> 0]
        ELSE IF offset - canRead = 0
        THEN [o |-> o2, err |-> NoErr, ret |-> o2.offset]
        ELSE seekFromRelative(o2, offset - canRead)

\* Object.seekFromStart.
seekFromStart(o, offset) ==
    seekFromRelative([o EXCEPT !.offset = 0, !.posBlockIdx = 0,
                               !.posBlockOff = 0], offset)

\* Object.seekFromEnd.
seekFromEnd(o, offset) ==
    seekFromRelativeBack(
        [o EXCEPT !.offset = size(o), !.posBlockIdx = Len(o.blocks) - 1,
                  !.posBlockOff = o.blocks[Len(o.blocks)].End], offset)

\* Object.seek: whence 0 is io.SeekStart, 1 io.SeekCurrent, 2 io.SeekEnd.
seek(o, offset, whence) ==
    IF whence = 0 THEN seekFromStart(o, offset)
    ELSE IF whence = 1 THEN seekFromRelative(o, offset)
    ELSE IF whence = 2 THEN seekFromEnd(o, offset)
    ELSE [o |-> o, err |-> "unknown whence", ret |-> 0]

\* The logical offset of the cursor of o: the bytes of the blocks before the
\* cursor's block and posBlockOff.
cursor(o) == sumEnd(o.blocks, o.posBlockIdx) + o.posBlockOff

(***************************************************************************)
(* The index of the block file: a pool over the index object, one chunk    *)
(* per object holding json.Marshal of its ObjectMeta.                      *)
(***************************************************************************)
\* strconv decimal digits of n as ASCII bytes.
RECURSIVE Digits(_)
Digits(n) ==
    IF n < 10 THEN << 48 + n >> ELSE Append(Digits(n \div 10), 48 + (n % 10))

\* {"Name":"
jsonName == << 123, 34, 78, 97, 109, 101, 34, 58, 34 >>

\* ","StartBlock":
jsonStartBlock ==
    << 34, 44, 34, 83, 116, 97, 114, 116, 66, 108, 111, 99, 107, 34, 58 >>

\* ,"Deleted":false}
jsonDeleted ==
    << 44, 34, 68, 101, 108, 101, 116, 101, 100, 34, 58, 102, 97, 108, 115,
       101, 125 >>

\* json.Marshal(ObjectMeta{Name: name, StartBlock: start}) for a name of
\* letters, which json writes as they are.
jsonMarshal(name, start) ==
    jsonName \o name \o jsonStartBlock \o Digits(start) \o jsonDeleted

\* The first position from i on at which b holds the byte c; Len(b) + 1 when
\* there is none.
RECURSIVE indexByte(_, _, _)
indexByte(b, c, i) ==
    IF i > Len(b) THEN i
    ELSE IF b[i] = c THEN i
    ELSE indexByte(b, c, i + 1)

RECURSIVE parseUint(_, _)
parseUint(b, acc) ==
    IF b = << >> THEN acc ELSE parseUint(Tail(b), 10 * acc + (Head(b) - 48))

\* json.Unmarshal into ObjectMeta: the string after "Name": up to its closing
\* quote and the number after "StartBlock": up to the comma.
jsonUnmarshal(b) ==
    LET q == indexByte(b, 34, Len(jsonName) + 1)
        s == q + Len(jsonStartBlock)
        c == indexByte(b, 44, s)
    IN  [Name |-> SubSeq(b, Len(jsonName) + 1, q - 1),
         StartBlock |-> parseUint(SubSeq(b, s, c - 1), 0)]

\* The Writes of the pool on the index object, one for each of pp in order,
\* after the outcome r of what went before; the first error ends them.
RECURSIVE indexWrite(_, _)
indexWrite(r, pp) ==
    LET done(w) == indexWrite([d |-> w.d, o |-> w.o, err |-> w.err], Tail(pp))
    IN  IF r.err # NoErr \/ pp = << >> THEN r
        ELSE done(write(r.d, r.o, Head(pp)))

\* Chunk.initialize on the index object: Seek(0, io.SeekEnd), the three
\* header fields and cap zero bytes, each by a Write of its own.  The bytes
\* themselves are kept in d.index.disk.  [d, err].
indexAppend(d, cap) ==
    LET sought(s) ==
            indexWrite([d |-> d, o |-> s.o, err |-> s.err],
                       << zeros(4), zeros(4), zeros(1), zeros(cap) >>)
        done(r) == [d |-> [r.d EXCEPT !.indexObj = r.o.blocks], err |-> r.err]
    IN  done(sought(seekFromEnd(NewObject(d.indexObj), 0)))

\* The block file after the pool operation with the outcome w: a new chunk
\* at the end of the pool was written through the index object.  [d, err].
indexed(d, w) ==
    LET appended(a) ==
            IF a.err # NoErr THEN a
            ELSE [d |-> [a.d EXCEPT !.index = w.s], err |-> w.err]
    IN  IF w.s.flen > d.index.flen
        THEN appended(indexAppend(d, w.s.flen - d.index.flen - headerSize))
        ELSE [d |-> [d EXCEPT !.index = w.s], err |-> w.err]

(***************************************************************************)
(* BlockDB.                                                                *)
(***************************************************************************)
\* block.Create on an empty file.
BlockCreate ==
    grow([fmeta    |-> [BlockCount |-> 0, FirstFreeBlock |-> 0],
          blk      |-> << >>,
          meta     |-> [BlockCount |-> 0, FirstFreeBlock |-> 0],
          objects  |-> << >>,
          indexObj |-> << nilBlock >>,
          index    |-> NewPool(<< >>, 0)], 1, FALSE).d

\* BlockDB.Grow.
Grow(d, n) == grow(d, n, TRUE)

\* BlockDB.FileSize: the header and the blocks the file holds.
FileSize(d) == sizeDBMeta + Cardinality(DOMAIN d.blk) * BlockSize

\* BlockDB.Create: the set of outcomes [d, err, o].  An object that exists
\* is cut down to its first block, emptied; a new one gets one block and a
\* chunk in the index.
DBCreate(d, name) ==
    LET start == d.objects[name].StartBlock
        freed(f) ==
            IF f.err # NoErr THEN [d |-> f.d, err |-> f.err, o |-> nilObject]
            ELSE [d |-> f.d, err |-> NoErr,
                  o |-> NewObject(<< [idx |-> start, End |-> 0, Next |-> 0] >>)]
        emptied(r, d1) ==
            IF r.err # NoErr THEN [d |-> d, err |-> r.err, o |-> nilObject]
            ELSE IF r.b.Next # 0
            THEN freed(free(d1, r.b.Next, BlockFuel(d)))
            ELSE freed([d |-> d1, err |-> NoErr])
        entered(a, w, i) ==
            IF i.err # NoErr THEN [d |-> i.d, err |-> i.err, o |-> nilObject]
            ELSE [d |-> [i.d EXCEPT !.objects =
                            (name :> [StartBlock |-> a.b.idx,
                                      chunk |-> w.ret]) @@ @],
                  err |-> NoErr, o |-> NewObject(<< a.b >>)]
        allocated(a) ==
            IF a.err # NoErr THEN { [d |-> a.d, err |-> a.err, o |-> nilObject] }
            ELSE { entered(a, w, indexed(a.d, w))
                   : w \in AllocAndWrite(a.d.index,
                                         jsonMarshal(name, a.b.idx)) }
    IN  IF name \in DOMAIN d.objects
        THEN { emptied(readMeta(d, start),
                       writeNext(writeEnd(d, start, 0), start, 0)) }
        ELSE allocated(allocSingle(d))

\* A Delete that leaves the metadata chunk allocated.
DBDelete_KeepChunk(d, name) ==
    LET start == d.objects[name].StartBlock
        r     == readMeta(d, start)
    IN  IF name \notin DOMAIN d.objects
        THEN { [d |-> d, err |-> "ErrNotExist"] }
        ELSE IF r.err # NoErr THEN { [d |-> d, err |-> r.err] }
        ELSE { free([d EXCEPT !.objects =
                        [n \in DOMAIN @ \ {name} |-> @[n]]],
                    start, BlockFuel(d)) }

\* BlockDB.Delete: the set of outcomes [d, err].
DBDelete(d, name) ==
    LET start == d.objects[name].StartBlock
        r     == readMeta(d, start)
        unlisted(i) ==
            IF i.err # NoErr THEN i
            ELSE free([i.d EXCEPT !.objects =
                          [n \in DOMAIN @ \ {name} |-> @[n]]],
                      start, BlockFuel(d))
    IN  IF name \notin DOMAIN d.objects
        THEN { [d |-> d, err |-> "ErrNotExist"] }
        ELSE IF r.err # NoErr THEN { [d |-> d, err |-> r.err] }
        ELSE { unlisted(indexed(d, w))
               : w \in ChunkFree(d.index, d.objects[name].chunk) }

\* BlockDB.Open: [err, o].
DBOpen(d, name) ==
    IF name \notin DOMAIN d.objects THEN [err |-> "ErrNotExist", o |-> nilObject]
    ELSE LET b == blocks(d, d.objects[name].StartBlock)
         IN  IF b.err # NoErr THEN [err |-> b.err, o |-> nilObject]
             ELSE [err |-> NoErr, o |-> NewObject(b.bb)]

\* block.Open on the file of d: the set of outcomes [d, err].  Everything in
\* memory is made anew from the file: the header, the blocks of the index
\* object, the pool by its scan of the index object, and the objects from
\* the chunks that are not free.  Two chunks with one name are entered in
\* the order of a Go map range, so either can stay.
BlockOpen(d) ==
    LET d0    == [d EXCEPT !.meta = d.fmeta]
        bb    == blocks(d0, 0)
        pool  == NewPool(d.index.disk, size(NewObject(bb.bb)))
        alloc0 == { c \in DOMAIN pool.chunks : ~pool.chunks[c].free }
        meta(c) == jsonUnmarshal(ReadAll(pool, c).data.v)
        names == { meta(c).Name : c \in alloc0 }
        bad   == { c \in alloc0 : ReadAll(pool, c).err # NoErr }
        d1    == [d0 EXCEPT !.indexObj = bb.bb, !.index = pool,
                            !.objects = << >>]
    IN  IF bb.err # NoErr THEN { [d |-> d0, err |-> bb.err] }
        ELSE IF bad # {}
        THEN { [d |-> d1, err |-> ReadAll(pool, c).err] : c \in bad }
        ELSE { [d |-> [d1 EXCEPT !.objects =
                          [n \in names |->
                              [StartBlock |-> meta(f[n]).StartBlock,
                               chunk |-> f[n]]]],
                err |-> NoErr]
               : f \in { g \in [names -> alloc0] :
                           \A n \in names : meta(g[n]).Name = n } }

(***************************************************************************)
(* Part III  kvstore: the store over a block file, its buckets (one        *)
(*           HashMap per bucket, each over an object of the block file)    *)
(*           and its transactions.  Specification SpecStore.               *)
(*                                                                         *)
(* Part II gives an object of the block file as a flat byte stream, which  *)
(* Create of an existing name empties; here the block file is the map      *)
(* file: object name -> [disk, flen], the stream of each object, and a     *)
(* HashMap over an object is a HashMap of Part I over that stream.         *)
(* A store st is a record                                                  *)
(*   file       : the objects of the block file                            *)
(*   buckets    : store.buckets, map key -> the HashMap in memory          *)
(*   bucketsMap : store.bucketsMap, the HashMap over the object "objects"  *)
(* and a write transaction w is a record                                   *)
(*   active      : writeTx.store is set                                    *)
(*   locked      : writeTx.m is held                                       *)
(*   writeCache  : bucket -> key -> payload                                *)
(*   deleteCache : bucket -> key -> BOOLEAN                                *)
(* Store operations yield sets of outcomes [s, err, ret] with s a store.   *)
(***************************************************************************)
\* "bucket"
bucketDir == << 98, 117, 99, 107, 101, 116 >>

\* bucketPath: path.Join("bucket", name), for a name that is a clean
\* relative path.
bucketPath(name) == bucketDir \o << 47 >> \o name

\* "objects"
objectsName == << 111, 98, 106, 101, 99, 116, 115 >>

emptyStream == [disk |-> << >>, flen |-> 0]

\* The stream under a HashMap.
stream(s) == [disk |-> s.disk, flen |-> s.flen]

\* kvstore.New over the block file: block.Create or block.Open,
\* db.Create("objects"), which makes the object or empties it, NewHashMap
\* over it, and an empty buckets map.
New(file) ==
    { [s   |-> [file       |-> (objectsName :> stream(o.s)) @@ file,
                buckets    |-> << >>,
                bucketsMap |-> o.s],
       err |-> o.err, ret |-> 0]
      : o \in NewHashMap(emptyStream.disk, emptyStream.flen) }

\* The outcomes of an operation of the HashMap store.buckets[key], whose
\* object is "bucket/" + key, as outcomes of the store.
inBucket(st, key, outs) ==
    { [o EXCEPT !.s = [st EXCEPT !.buckets[key] = o.s,
                                 !.file[bucketPath(key)] = stream(o.s)]]
      : o \in outs }

\* writeTx.write.
writeTxWrite(st, bucket, key, payload) ==
    IF bucket \in DOMAIN st.buckets
    THEN inBucket(st, bucket, Store(st.buckets[bucket], key, payload))
    ELSE LET p   == bucketPath(bucket)
             st1 == [st EXCEPT !.file = (p :> emptyStream) @@ @]
         IN  UNION {
               IF n.err # NoErr
               THEN { Fail([st1 EXCEPT !.file[p] = stream(n.s)], n.err) }
               ELSE UNION {
                      LET st2 == [st1 EXCEPT !.file[p] = stream(n.s),
                                             !.file[objectsName] = stream(r.s),
                                             !.bucketsMap = r.s]
                      IN  IF r.err # NoErr THEN { Fail(st2, r.err) }
                          ELSE inBucket(
                                 [st2 EXCEPT !.buckets = (bucket :> n.s) @@ @],
                                 bucket, Store(n.s, key, payload))
                      : r \in Store(st1.bucketsMap, bucket, p) }
               : n \in NewHashMap(emptyStream.disk, emptyStream.flen) }

\* store.Writer: a new write transaction.
Writer ==
    [active |-> TRUE, locked |-> FALSE, writeCache |-> << >>,
     deleteCache |-> << >>]

\* json.Marshal and json.Unmarshal of the values of the model, numbers >= 0.
jsonNumber(v) == Digits(v)

jsonToNumber(b) == parseUint(b, 0)

\* writeTx.Set that leaves the delete cache as it is.
writeTxSet_KeepDeleted(w, bucket, key, value) ==
    LET b == IF bucket \in DOMAIN w.writeCache THEN w.writeCache[bucket]
             ELSE << >>
    IN  [w EXCEPT !.writeCache =
            (bucket :> ((key :> jsonNumber(value)) @@ b)) @@ @]

\* writeTx.Set.
writeTxSet(w, bucket, key, value) ==
    LET b  == IF bucket \in DOMAIN w.writeCache THEN w.writeCache[bucket]
              ELSE << >>
        w1 == [w EXCEPT !.writeCache =
                  (bucket :> ((key :> jsonNumber(value)) @@ b)) @@ @]
    IN  IF bucket \in DOMAIN w.deleteCache
        THEN [w1 EXCEPT !.deleteCache[bucket] = (key :> FALSE) @@ @]
        ELSE w1

\* writeTx.Delete.
writeTxDelete(w, bucket, key) ==
    LET d == IF bucket \in DOMAIN w.deleteCache THEN w.deleteCache[bucket]
             ELSE << >>
    IN  [w EXCEPT !.deleteCache = (bucket :> ((key :> TRUE) @@ d)) @@ @]

\* deletedCache != nil && deletedCache[k]
isDeleted(w, bucket, key) ==
    /\ bucket \in DOMAIN w.deleteCache
    /\ key \in DOMAIN w.deleteCache[bucket]
    /\ w.deleteCache[bucket][key]

\* writeTx.Commit, first loop: the writes of one bucket of writeCache, its
\* keys in the order of a Go map range, and the buckets in such an order.
RECURSIVE commitKeys(_, _, _, _)
commitKeys(st, w, name, keys) ==
    IF keys = {} THEN { Ok(st, 0) }
    ELSE UNION {
           IF isDeleted(w, name, k) THEN commitKeys(st, w, name, keys \ {k})
           ELSE Bind(writeTxWrite(st, name, k, w.writeCache[name][k]),
                     LAMBDA o : commitKeys(o.s, w, name, keys \ {k}))
           : k \in keys }

RECURSIVE commitWrites(_, _, _)
commitWrites(st, w, names) ==
    IF names = {} THEN { Ok(st, 0) }
    ELSE UNION {
           Bind(commitKeys(st, w, n, DOMAIN w.writeCache[n]),
                LAMBDA o : commitWrites(o.s, w, names \ {n}))
           : n \in names }

\* writeTx.Commit, second loop: the deletes, in the map store.buckets[name]
\* when there is one.
RECURSIVE commitDeleteKeys(_, _, _, _)
commitDeleteKeys(st, w, name, keys) ==
    IF keys = {} THEN { Ok(st, 0) }
    ELSE UNION {
           IF ~w.deleteCache[name][k] \/ name \notin DOMAIN st.buckets
           THEN commitDeleteKeys(st, w, name, keys \ {k})
           ELSE Bind(inBucket(st, name, Delete(st.buckets[name], k)),
                     LAMBDA o : commitDeleteKeys(o.s, w, name, keys \ {k}))
           : k \in keys }

RECURSIVE commitDeletes(_, _, _)
commitDeletes(st, w, names) ==
    IF names = {} THEN { Ok(st, 0) }
    ELSE UNION {
           Bind(commitDeleteKeys(st, w, n, DOMAIN w.deleteCache[n]),
                LAMBDA o : commitDeletes(o.s, w, names \ {n}))
           : n \in names }

\* writeTx.Commit of an active transaction.
writeTxCommit(st, w) ==
    Bind(commitWrites(st, w, DOMAIN w.writeCache),
         LAMBDA o : commitDeletes(o.s, w, DOMAIN w.deleteCache))

\* writeTx.Rollback: wtx.m is locked and stays locked.
writeTxRollback(w) == [w EXCEPT !.active = FALSE, !.locked = TRUE]

\* readTx.Get, and store.Get through it: [err, val].
readTxGet(st, bucket, key) ==
    LET p == bucketPath(bucket)
        l == Load(st.buckets[p], key)
    IN  IF p \notin DOMAIN st.buckets
        THEN [err |-> "ErrBucketNotFound", val |-> 0]
        ELSE IF l.err # NoErr THEN [err |-> l.err, val |-> 0]
        ELSE IF ~l.found THEN [err |-> "ErrKeyNotFound", val |-> 0]
        ELSE [err |-> NoErr, val |-> jsonToNumber(l.val)]

\* readTx.List: [err, keys].
readTxList(st, bucket) ==
    LET p == bucketPath(bucket)
        r == Range(st.buckets[p])
    IN  IF p \notin DOMAIN st.buckets
        THEN [err |-> "ErrBucketNotFound", keys |-> << >>]
        ELSE IF r.err # NoErr THEN [err |-> r.err, keys |-> << >>]
        ELSE [err |-> NoErr, keys |-> [i \in 1 .. Len(r.seen) |-> r.seen[i][1]]]


\* writeTx.Get: [err, val].
writeTxGet(st, w, bucket, key) ==
    IF isDeleted(w, bucket, key) THEN [err |-> "ErrKeyNotFound", val |-> 0]
    ELSE IF /\ bucket \in DOMAIN w.writeCache
            /\ key \in DOMAIN w.writeCache[bucket]
    THEN [err |-> NoErr, val |-> jsonToNumber(w.writeCache[bucket][key])]
    ELSE readTxGet(st, bucket, key)
(***************************************************************************)
(* Variables.  Each specification drives the variables of its own part and *)
(* leaves those of the other parts as they are, not built.                 *)
(*   Spec       m, shadow, last, nops                                      *)
(*   SpecBlock  db, h, ideal, blast, bops                                  *)
(*   SpecStore  st, wtx, kept, slast, sops                                 *)
(*   SpecPool   pool, ptrs, plast, pops                                    *)
(*   SpecLock   held, gor, made                                            *)
(*   SpecTx     stm, txs, data, settled                                    *)
(*   SpecCreate cr                                                         *)
(*   SpecCtl    ctl                                                        *)
(*   SpecRead   rdr                                                        *)
(*   SpecConc   conc                                                       *)
(*   SpecWrite  wr                                                         *)
(***************************************************************************)
VARIABLES m, shadow, last, nops, db, h, ideal, blast, bops,
          st, wtx, kept, slast, sops, pool, ptrs, plast, pops, held, gor,
          made, stm, txs, data, settled, cr, ctl, rdr, conc, wr

varsMap == << m, shadow, last, nops >>

varsBlock == << db, h, ideal, blast, bops >>

varsStore == << st, wtx, kept, slast, sops >>

varsPool == << pool, ptrs, plast, pops >>

varsLock == << held, gor, made >>

varsTx == << stm, txs, data, settled >>

varsCreate == << cr >>

varsCtl == << ctl >>

varsRead == << rdr >>

varsConc == << conc >>

varsWrite == << wr >>

vars == << m, shadow, last, nops, db, h, ideal, blast, bops,
           st, wtx, kept, slast, sops, pool, ptrs, plast, pops,
           held, gor, made, stm, txs, data, settled, cr, ctl, rdr,
           conc, wr >>

IdleMap == m = << >> /\ shadow = << >> /\ last = << >> /\ nops = 0

IdleBlock ==
    db = << >> /\ h = << >> /\ ideal = << >> /\ blast = << >> /\ bops = 0

IdleStore ==
    st = << >> /\ wtx = << >> /\ kept = << >> /\ slast = << >> /\ sops = 0


IdlePool == pool = << >> /\ ptrs = << >> /\ plast = << >> /\ pops = 0

IdleLock == held = << >> /\ gor = << >> /\ made = << >>

IdleTx == stm = << >> /\ txs = << >> /\ data = << >> /\ settled = << >>

IdleCreate == cr = << >>

IdleCtl == ctl = << >>

IdleRead == rdr = << >>

IdleConc == conc = << >>

IdleWrite == wr = << >>

\* The variables a specification leaves alone, and their values in it.
notMap == << varsBlock, varsStore, varsPool, varsLock, varsTx, varsCreate,
    varsCtl, varsRead, varsConc, varsWrite >>

notBlock == << varsMap, varsStore, varsPool, varsLock, varsTx, varsCreate,
    varsCtl, varsRead, varsConc, varsWrite >>

notStore == << varsMap, varsBlock, varsPool, varsLock, varsTx, varsCreate,
    varsCtl, varsRead, varsConc, varsWrite >>

notPool == << varsMap, varsBlock, varsStore, varsLock, varsTx, varsCreate,
    varsCtl, varsRead, varsConc, varsWrite >>

notLock == << varsMap, varsBlock, varsStore, varsPool, varsTx, varsCreate,
    varsCtl, varsRead, varsConc, varsWrite >>

notTx == << varsMap, varsBlock, varsStore, varsPool, varsLock, varsCreate,
    varsCtl, varsRead, varsConc, varsWrite >>

notCreate == << varsMap, varsBlock, varsStore, varsPool, varsLock, varsTx,
    varsCtl, varsRead, varsConc, varsWrite >>

notCtl == << varsMap, varsBlock, varsStore, varsPool, varsLock, varsTx,
    varsCreate, varsRead, varsConc, varsWrite >>

notRead == << varsMap, varsBlock, varsStore, varsPool, varsLock, varsTx,
    varsCreate, varsCtl, varsConc, varsWrite >>

notConc == << varsMap, varsBlock, varsStore, varsPool, varsLock, varsTx,
    varsCreate, varsCtl, varsRead, varsWrite >>

notWrite == << varsMap, varsBlock, varsStore, varsPool, varsLock, varsTx,
    varsCreate, varsCtl, varsRead, varsConc >>

OnlyMap == IdleBlock /\ IdleStore /\ IdlePool /\ IdleLock /\ IdleTx /\
    IdleCreate /\ IdleCtl /\ IdleRead /\ IdleConc /\ IdleWrite

OnlyBlock == IdleMap /\ IdleStore /\ IdlePool /\ IdleLock /\ IdleTx /\
    IdleCreate /\ IdleCtl /\ IdleRead /\ IdleConc /\ IdleWrite

OnlyStore == IdleMap /\ IdleBlock /\ IdlePool /\ IdleLock /\ IdleTx /\
    IdleCreate /\ IdleCtl /\ IdleRead /\ IdleConc /\ IdleWrite

OnlyPool == IdleMap /\ IdleBlock /\ IdleStore /\ IdleLock /\ IdleTx /\
    IdleCreate /\ IdleCtl /\ IdleRead /\ IdleConc /\ IdleWrite

OnlyLock == IdleMap /\ IdleBlock /\ IdleStore /\ IdlePool /\ IdleTx /\
    IdleCreate /\ IdleCtl /\ IdleRead /\ IdleConc /\ IdleWrite

OnlyTx == IdleMap /\ IdleBlock /\ IdleStore /\ IdlePool /\ IdleLock /\
    IdleCreate /\ IdleCtl /\ IdleRead /\ IdleConc /\ IdleWrite

OnlyCreate == IdleMap /\ IdleBlock /\ IdleStore /\ IdlePool /\ IdleLock /\
    IdleTx /\ IdleCtl /\ IdleRead /\ IdleConc /\ IdleWrite

OnlyCtl == IdleMap /\ IdleBlock /\ IdleStore /\ IdlePool /\ IdleLock /\
    IdleTx /\ IdleCreate /\ IdleRead /\ IdleConc /\ IdleWrite

OnlyRead == IdleMap /\ IdleBlock /\ IdleStore /\ IdlePool /\ IdleLock /\
    IdleTx /\ IdleCreate /\ IdleCtl /\ IdleConc /\ IdleWrite

OnlyConc == IdleMap /\ IdleBlock /\ IdleStore /\ IdlePool /\ IdleLock /\
    IdleTx /\ IdleCreate /\ IdleCtl /\ IdleRead /\ IdleWrite

OnlyWrite == IdleMap /\ IdleBlock /\ IdleStore /\ IdlePool /\ IdleLock /\
    IdleTx /\ IdleCreate /\ IdleCtl /\ IdleRead /\ IdleConc
(***************************************************************************)
(* Specification Spec: one HashMap over a stream that starts empty.        *)
(*   m      the hash-map and its stream                                    *)
(*   shadow key -> the value a correct map holds for it (NoValue: none),   *)
(*          following the operations that returned no error                *)
(*   last   the last operation: [op, key, value, err, had], had telling    *)
(*          whether Load found the key before the operation                *)
(*   nops   number of operations so far                                    *)
(***************************************************************************)
NoValue == << -1 >>

Init ==
    /\ m \in { o.s : o \in NewHashMap(<< >>, 0) }
    /\ shadow = [k \in Keys |-> NoValue]
    /\ last = [op |-> "New", key |-> << >>, value |-> << >>, err |-> NoErr,
               had |-> FALSE]
    /\ nops = 0
    /\ OnlyMap

\* No operation follows one that never returns.
CanCall == nops < MaxOps /\ last.err # "hang"

DoStore(k, v) ==
    /\ CanCall
    /\ \E o \in Store(m, k, v) :
         /\ m' = o.s
         /\ shadow' = IF o.err = NoErr THEN [shadow EXCEPT ![k] = v] ELSE shadow
         /\ last' = [op |-> "Store", key |-> k, value |-> v, err |-> o.err,
                     had |-> Load(m, k).found]
    /\ nops' = nops + 1
    /\ UNCHANGED notMap

DoDelete(k) ==
    /\ CanCall
    /\ \E o \in Delete(m, k) :
         /\ m' = o.s
         /\ shadow' = IF o.err = NoErr THEN [shadow EXCEPT ![k] = NoValue]
                      ELSE shadow
         /\ last' = [op |-> "Delete", key |-> k, value |-> << >>, err |-> o.err,
                     had |-> Load(m, k).found]
    /\ nops' = nops + 1
    /\ UNCHANGED notMap

\* NewHashMap again over the same stream.
DoReopen ==
    /\ CanCall
    /\ \E o \in NewHashMap(m.disk, m.flen) :
         /\ m' = o.s
         /\ last' = [op |-> "Reopen", key |-> << >>, value |-> << >>,
                     err |-> o.err, had |-> FALSE]
    /\ UNCHANGED shadow
    /\ nops' = nops + 1
    /\ UNCHANGED notMap

Next ==
    \/ \E k \in Keys, v \in Values : DoStore(k, v)
    \/ \E k \in Keys : DoDelete(k)
    \/ DoReopen

Spec == Init /\ [][Next]_vars

(***************************************************************************)
(* Claims about the HashMap (specification Spec).  Load and Range change   *)
(* nothing, so "the next Load" after an operation is Load on the state the *)
(* operation left.                                                         *)
(***************************************************************************)
Found(v) == [val |-> v, found |-> TRUE, err |-> NoErr]

\* The pairs a correct map holds.
ShadowPairs == { <<k, shadow[k]>> : k \in { x \in Keys : shadow[x] # NoValue } }

SeqToSet(q) == { q[i] : i \in 1 .. Len(q) }

\* C1: a Store(k, v) that returned no error is followed by a Load(k) that
\* returns (v, true, nil).
C1_StoreThenLoad ==
    (last.op = "Store" /\ last.err = NoErr)
        => Load(m, last.key) = Found(last.value)

\* C2: a Delete(k) that returned nil is followed by a Load(k) that returns
\* found = false.
C2_DeleteThenLoad ==
    (last.op = "Delete" /\ last.err = NoErr) => ~Load(m, last.key).found

\* C3: a Store(k, v2) of a key that is already in the map replaces its value:
\* Load(k) returns v2 and Range visits k once.
C3_StoreReplaces ==
    (last.op = "Store" /\ last.err = NoErr /\ last.had)
        => /\ Load(m, last.key) = Found(last.value)
           /\ LET r == Range(m)
              IN  /\ r.err = NoErr
                  /\ Cardinality({ i \in 1 .. Len(r.seen) :
                                     r.seen[i][1] = last.key }) = 1

\* C4: Range visits every stored pair once and no other pair.
C4_RangeVisitsStored ==
    LET r == Range(m)
    IN  /\ r.err = NoErr
        /\ SeqToSet(r.seen) = ShadowPairs
        /\ Len(r.seen) = Cardinality(ShadowPairs)

\* C5: in a map made by NewHashMap over the stream of an earlier map, Load
\* returns for every key the value last stored for it, and found = false for
\* a key that was never stored or was deleted.
C5_ReopenLoads ==
    (last.op = "Reopen" /\ last.err = NoErr)
        => \A k \in Keys :
              IF shadow[k] # NoValue
              THEN Load(m, k) = Found(shadow[k])
              ELSE ~Load(m, k).found


\* The keys a correct map holds.
Stored == { k \in Keys : shadow[k] # NoValue }

\* The node of key in the map s, as Load finds it.
itemOf(s, key) ==
    LET fb == findRootBucket(s, key)
    IN  IF fb.err # NoErr \/ fb.b.Head = 0 THEN nilNode
        ELSE bucketFindItem(s, fb.b, key).n

\* Every operation so far was a Store of a key not stored before, and there
\* were more than HashMapMaxList of them: the last one met a full list.
OnlyNewKeysStored ==
    /\ last.op = "Store" /\ last.err = NoErr
    /\ nops = Cardinality(Stored)
    /\ Cardinality(Stored) > HashMapMaxList

\* The root slot of key is a Buckets slot whose Head is a chunk in use that
\* holds a bucket array.
SplitSlot(s, key) ==
    LET slot == s.head[bucketIdx(0, key)]
    IN  /\ slot.Type = bucketTypeBuckets
        /\ slot.Head \in DOMAIN s.chunks
        /\ ~s.chunks[slot.Head].free
        /\ s.chunks[slot.Head].cap = sizeHashBuckets
        /\ ReadFrom(s, slot.Head).err = NoErr

\* C14: after more than HashMapMaxList distinct keys of one root slot were
\* stored into an empty map, the root slot is a Buckets slot pointing to a
\* child bucket array, Load returns every key with its value, and the nodes
\* put into the child array point to the key and value chunks they had.
C14_SplitRule ==
    [][ OnlyNewKeysStored' =>
          /\ \A k \in Keys : SplitSlot(m', k)
          /\ \A k \in Keys : Load(m', k) = Found(shadow'[k])
          /\ \A k \in Keys \ { last'.key } :
                /\ itemOf(m', k).key = itemOf(m, k).key
                /\ itemOf(m', k).value = itemOf(m, k).value
                /\ itemOf(m, k).key # 0 ]_vars

\* Four keys of slot 49 were stored one after the other into the empty map
\* and the slot was split.
C14_Witness ==
    /\ OnlyNewKeysStored
    /\ Stored = Keys
    /\ m.head[bucketIdx(0, last.key)].Type = bucketTypeBuckets

\* The List slots in use of the bucket array slots stored at pos and of the
\* arrays under it: triples << pos, slot, Head >>.
RECURSIVE listSlots(_, _, _, _)
listSlots(s, pos, slots, fuel) ==
    UNION { IF slots[i].Type = bucketTypeList
            THEN { << pos, i, slots[i].Head >> }
            ELSE IF fuel = 0 \/ ReadFrom(s, slots[i].Head).err # NoErr THEN {}
            ELSE listSlots(s, slots[i].Head,
                           ReadFrom(s, slots[i].Head).slots, fuel - 1)
            : i \in { j \in DOMAIN slots : slots[j].Head # 0 } }

Lists(s) == listSlots(s, 0, s.head, ReadFuel(s))

\* The node at ptr has Prev = prev, and so on along Next to a node with
\* Next = 0.
RECURSIVE linkedFrom(_, _, _, _)
linkedFrom(s, ptr, prev, fuel) ==
    LET r == NewKVNodeFromChunkPtr(s, ptr)
    IN  /\ r.err = NoErr
        /\ r.n.prev = prev
        /\ \/ r.n.next = 0
           \/ fuel > 0 /\ linkedFrom(s, r.n.next, ptr, fuel - 1)

\* C27: every bucket list is a consistent doubly linked list: its head has
\* Prev = 0, its tail Next = 0, and the successor y of a node x has
\* Prev = x.
C27_ListLinkage ==
    \A l \in Lists(m) : linkedFrom(m, l[3], 0, ReadFuel(m))

\* The chunks met along Next from the node at ptr.
RECURSIVE reach(_, _, _)
reach(s, ptr, fuel) ==
    IF ptr = 0 \/ fuel = 0 THEN {}
    ELSE LET r == NewKVNodeFromChunkPtr(s, ptr)
         IN  IF r.err # NoErr THEN { ptr }
             ELSE { ptr } \cup reach(s, r.n.next, fuel - 1)

\* The chunks in use that hold a KV node.
NodeChunks(s) ==
    { c \in DOMAIN s.chunks : ~s.chunks[c].free /\ s.disk[c].data.t = "node" }

InUse(s, c) == c \in DOMAIN s.chunks /\ ~s.chunks[c].free

\* C28: after Store and Delete operations that succeeded, every KV-node
\* chunk in use is reachable from the Head of exactly one List slot, every
\* list ends, and no node reachable from a Head, nor its key or value
\* chunk, is a free chunk.
C28_MapStructure ==
    last.err = NoErr =>
        /\ \A c \in NodeChunks(m) :
              Cardinality({ l \in Lists(m) :
                              c \in reach(m, l[3], ReadFuel(m)) }) = 1
        /\ \A l \in Lists(m) :
              /\ NewKVNodeFromChunkPtr(m, l[3]).err = NoErr
              /\ ListSize(m, NewKVNodeFromChunkPtr(m, l[3]).n).err = NoErr
              /\ \A c \in reach(m, l[3], ReadFuel(m)) :
                    /\ InUse(m, c)
                    /\ NewKVNodeFromChunkPtr(m, c).err = NoErr
                    /\ InUse(m, NewKVNodeFromChunkPtr(m, c).n.key)
                    /\ InUse(m, NewKVNodeFromChunkPtr(m, c).n.value)

\* The slot idx of the bucket array stored at pos.
slotAt(s, pos, idx) ==
    IF pos = 0 THEN s.head[idx] ELSE ReadFrom(s, pos).slots[idx]

\* The number of nodes of the leaf list of key in s, as hashBucket.Append
\* counts them; 0 for an empty slot.
leafSize(s, key) ==
    LET fb == findRootBucket(s, key)
    IN  IF fb.err # NoErr \/ fb.b.Head = 0 THEN 0
        ELSE IF NewKVNodeFromChunkPtr(s, fb.b.Head).err # NoErr THEN 0
        ELSE ListSize(s, NewKVNodeFromChunkPtr(s, fb.b.Head).n).size

Absent(s, key) ==
    LET fb == findRootBucket(s, key)
    IN  /\ fb.err = NoErr
        /\ \/ fb.b.Head = 0
           \/ /\ bucketFindItem(s, fb.b, key).err = NoErr
              /\ ~bucketFindItem(s, fb.b, key).found

\* C32: HashMap.Delete of a key that is in no list returns an error and
\* leaves the map as it was: every key loads what it did, Range visits the
\* same pairs, and the pool has the same chunks in use and free.
C32_DeleteAbsent ==
    [][ (last'.op = "Delete" /\ Absent(m, last'.key)) =>
            /\ last'.err = "key not found"
            /\ m' = m
            /\ \A x \in Keys : Load(m', x) = Load(m, x)
            /\ Range(m') = Range(m)
            /\ Allocated(m') = Allocated(m)
            /\ m'.freeChunks = m.freeChunks
            /\ shadow' = shadow
      ]_vars

\* Delete of a key that a list of two other keys lacks has failed.
C32_Witness ==
    /\ last.op = "Delete" /\ last.err = "key not found"
    /\ findRootBucket(m, last.key).b.Head # 0
    /\ Cardinality({ k \in Keys : Load(m, k).found }) >= 2
    /\ ~Load(m, last.key).found

(***************************************************************************)
(* Specification SpecPool: one chunk pool over a stream that starts empty, *)
(* used directly.                                                          *)
(*   pool   the pool and its stream                                        *)
(*   ptrs   pointer -> the Cap of the chunk when Alloc returned it, for    *)
(*          every pointer an Alloc or AllocAndWrite has returned           *)
(*   plast  the last operation: [op, ptr, n, err, before], before being    *)
(*          the pool it was called on                                      *)
(*   pops   number of operations so far                                    *)
(***************************************************************************)
\* Number of pool operations in one run.
MaxPoolOps == 4

\* Sizes asked of Alloc.
AllocSizes == { 0, 1, 2 }

\* Payloads written.
PoolBytes == { << >>, << 7 >>, << 8, 9 >> }

\* Offsets given to WriteAt.
PoolOffsets == { 0, 1 }

InitPool ==
    /\ pool = NewPool(<< >>, 0)
    /\ ptrs = << >>
    /\ plast = [op |-> "NewPool", ptr |-> 0, n |-> 0, err |-> NoErr,
                before |-> NewPool(<< >>, 0)]
    /\ pops = 0
    /\ OnlyPool

CanCallPool == pops < MaxPoolOps

PoolDid(op, ptr, n, err) ==
    [op |-> op, ptr |-> ptr, n |-> n, err |-> err, before |-> pool]

\* The pointer returned by an allocation, with the Cap of its chunk.
Handed(o) ==
    IF o.err = NoErr THEN (o.ret :> o.s.chunks[o.ret].cap) @@ ptrs ELSE ptrs

PoolAlloc(n) ==
    /\ CanCallPool
    /\ \E o \in Alloc(pool, n) :
         /\ pool' = o.s
         /\ ptrs' = Handed(o)
         /\ plast' = PoolDid("Alloc", o.ret, n, o.err)
    /\ pops' = pops + 1
    /\ UNCHANGED notPool

PoolAllocAndWrite(b) ==
    /\ CanCallPool
    /\ \E o \in AllocAndWrite(pool, b) :
         /\ pool' = o.s
         /\ ptrs' = Handed(o)
         /\ plast' = PoolDid("AllocAndWrite", o.ret, Len(b), o.err)
    /\ pops' = pops + 1
    /\ UNCHANGED notPool

\* Chunk.Write, Chunk.WriteAt and Chunk.Free on a chunk an allocation has
\* returned, whether or not it was freed since.
PoolWrite(c, b) ==
    /\ CanCallPool
    /\ c \in DOMAIN ptrs
    /\ \E o \in ChunkWrite(pool, c, Raw(b), Len(b)) :
         /\ pool' = o.s
         /\ plast' = PoolDid("Write", c, Len(b), o.err)
    /\ pops' = pops + 1
    /\ UNCHANGED << ptrs, notPool >>

PoolWriteAt(c, b, off) ==
    /\ CanCallPool
    /\ c \in DOMAIN ptrs
    /\ \E o \in ChunkWriteAt(pool, c, b, off) :
         /\ pool' = o.s
         /\ plast' = PoolDid("WriteAt", c, off + Len(b), o.err)
    /\ pops' = pops + 1
    /\ UNCHANGED << ptrs, notPool >>

PoolFree(c) ==
    /\ CanCallPool
    /\ c \in DOMAIN ptrs
    /\ \E o \in ChunkFree(pool, c) :
         /\ pool' = o.s
         /\ plast' = PoolDid("Free", c, 0, o.err)
    /\ pops' = pops + 1
    /\ UNCHANGED << ptrs, notPool >>

NextPool ==
    \/ \E n \in AllocSizes : PoolAlloc(n)
    \/ \E b \in PoolBytes : PoolAllocAndWrite(b)
    \/ \E c \in DOMAIN ptrs, b \in PoolBytes : PoolWrite(c, b)
    \/ \E c \in DOMAIN ptrs, b \in PoolBytes, off \in PoolOffsets :
          PoolWriteAt(c, b, off)
    \/ \E c \in DOMAIN ptrs : PoolFree(c)

SpecPool == InitPool /\ [][NextPool]_vars

(***************************************************************************)
(* Claims about the chunk pool (specification SpecPool).                   *)
(***************************************************************************)
\* The chunks of s lie one after the other from offset 0 to the end of the
\* stream: each ends where the next one starts or where the stream ends, and
\* the scan from 0 meets them all.
Tiled(s) ==
    /\ DOMAIN s.disk = DOMAIN s.chunks
    /\ s.chunks = << >> => s.flen = 0
    /\ s.chunks # << >> => 0 \in DOMAIN s.chunks
    /\ \A c \in DOMAIN s.chunks :
          LET end == c + headerSize + s.chunks[c].cap
          IN  /\ s.chunks[c].size <= s.chunks[c].cap
              /\ end = s.flen \/ (end < s.flen /\ end \in DOMAIN s.chunks)
    /\ \A c1, c2 \in DOMAIN s.chunks :
          c1 < c2 => c1 + headerSize + s.chunks[c1].cap <= c2

\* C15: after any Alloc, AllocAndWrite, Write, WriteAt and Free calls the
\* chunks tile the stream, and NewPool over the stream finds the same
\* chunks with the same Cap, Size and Free, its freeChunks being the chunks
\* marked free and Allocated() the others.
C15_PoolTiling ==
    LET p == NewPool(pool.disk, pool.flen)
    IN  /\ Tiled(pool)
        /\ p.chunks = pool.chunks
        /\ p.freeChunks = pool.freeChunks
        /\ pool.freeChunks = { c \in DOMAIN pool.chunks : pool.chunks[c].free }
        /\ Allocated(pool) = DOMAIN pool.chunks \ pool.freeChunks
        /\ Allocated(p) = Allocated(pool)

\* Three chunks, one free, one written at an offset, one reused by Alloc.
C15_Witness ==
    /\ Cardinality(DOMAIN pool.chunks) >= 2
    /\ pool.freeChunks # {}
    /\ Allocated(pool) # {}
    /\ plast.op = "Free"
    /\ \E c \in Allocated(pool) : pool.chunks[c].size > 0

\* C16: every pointer an Alloc or AllocAndWrite has returned still resolves
\* through Get, to a chunk whose header is on the stream at that pointer and
\* whose Cap is the one it was handed out with; no operation removes a chunk
\* of the pool or changes its Cap.
C16_PointerStability ==
    /\ \A p \in DOMAIN ptrs :
          /\ GetErr(pool, p) = NoErr
          /\ pool.chunks[p].cap = ptrs[p]
          /\ p \in DOMAIN pool.disk /\ pool.disk[p].cap = ptrs[p]
    /\ \A c \in DOMAIN plast.before.chunks :
          /\ c \in DOMAIN pool.chunks
          /\ pool.chunks[c].cap = plast.before.chunks[c].cap

\* A pointer that was freed, handed out again by Alloc and written to.
C16_Witness ==
    /\ Cardinality(DOMAIN ptrs) >= 2
    /\ plast.op \in { "Write", "WriteAt" }
    /\ plast.err = NoErr
    /\ plast.ptr \in DOMAIN ptrs
    /\ plast.before.chunks[plast.ptr].size > plast.n
    /\ pool.freeChunks # {}

\* The chunks of s other than c are those of b, unchanged.
OthersKept(b, s, c) ==
    \A x \in DOMAIN b.chunks \ {c} :
        /\ x \in DOMAIN s.chunks
        /\ s.chunks[x] = b.chunks[x]
        /\ s.disk[x] = b.disk[x]

\* C30: Pool.Alloc(n) returns no chunk that is in use or has Cap < n.  With
\* a free chunk of Cap >= n it returns such a chunk, the stream being as
\* long as before, with Size 0 and Free false and no longer in freeChunks;
\* with none it appends a chunk of Cap n to the stream.  freeChunks is the
\* set of the chunks marked free, and a pointer that Alloc or AllocAndWrite
\* returns is not the pointer of a chunk in use.
C30_AllocContract ==
    /\ pool.freeChunks = { c \in DOMAIN pool.chunks : pool.chunks[c].free }
    /\ \A c \in DOMAIN pool.chunks : pool.disk[c].free = pool.chunks[c].free
    /\ plast.op \in { "Alloc", "AllocAndWrite" } =>
          /\ plast.err = NoErr
          /\ plast.ptr \notin Allocated(plast.before)
          /\ plast.ptr \in Allocated(pool)
          /\ pool.chunks[plast.ptr].cap >= plast.n
    /\ plast.op = "Alloc" =>
          LET b    == plast.before
              p    == plast.ptr
              fits == { c \in b.freeChunks : b.chunks[c].cap >= plast.n }
          IN  /\ OthersKept(b, pool, p)
              /\ pool.chunks[p].size = 0 /\ ~pool.chunks[p].free
              /\ pool.disk[p].size = 0
              /\ IF fits # {}
                 THEN /\ p \in fits
                      /\ pool.flen = b.flen
                      /\ DOMAIN pool.chunks = DOMAIN b.chunks
                      /\ pool.chunks[p].cap = b.chunks[p].cap
                      /\ pool.freeChunks = b.freeChunks \ {p}
                 ELSE /\ p = b.flen
                      /\ p \notin DOMAIN b.chunks
                      /\ DOMAIN pool.chunks = DOMAIN b.chunks \cup {p}
                      /\ pool.chunks[p].cap = plast.n
                      /\ pool.flen = b.flen + headerSize + plast.n
                      /\ pool.freeChunks = b.freeChunks

\* Alloc has reused a free chunk of a Cap above the size asked for.
C30_Witness ==
    /\ plast.op = "Alloc" /\ plast.err = NoErr
    /\ plast.ptr \in plast.before.freeChunks
    /\ plast.before.chunks[plast.ptr].cap > plast.n
    /\ pool.flen = plast.before.flen
    /\ Allocated(pool) # { plast.ptr }
(***************************************************************************)
(* Specification SpecBlock: one block file, created empty, and the objects *)
(* in it, used through one object handle at a time.                        *)
(*   db     the block file and the BlockDB in memory                       *)
(*   h      the handle in use: [open, name, o], o the Object of the last   *)
(*          Create or Open; a Delete of its object and a reopening of the  *)
(*          file give it up                                                *)
(*   ideal  name -> the bytes a flat stream would hold for the object      *)
(*          (NoObject: there is none), a Write putting its bytes at the    *)
(*          logical offset of the cursor                                   *)
(*   blast  the last operation: [op, prev, name, err], prev the operation  *)
(*          before it                                                      *)
(*   bops   number of operations so far                                    *)
(***************************************************************************)
\* Number of block-file operations in one run.
MaxBlockOps == 5

\* Object names of the model: "f" and "g".
Names == { << 102 >>, << 103 >> }

\* Lengths written in one Write: inside one block, a whole block, and over
\* two block boundaries.
WriteLens == { 1, blockCap, 2 * blockCap + 1 }

\* Lengths asked for in one Read.
ReadLens == { 1, blockCap + 1 }

\* Offsets given to Seek.
SeekOffsets == { 0 - blockCap, -1, 0, 1, blockCap }

\* Blocks added by one Grow: 1 .. MaxGrow.  Grow(0) is left to the claims
\* about the free list.
MaxGrow == 2

NoObject == << -1 >>

NoHandle == [open |-> FALSE, name |-> << >>, o |-> nilObject]

Handle(name, o) == [open |-> TRUE, name |-> name, o |-> o]

\* The bytes of the Write that is operation number k: no two of them equal.
payload(k, len) == [i \in 1 .. len |-> 16 * (k + 1) + i]

\* The flat stream s after p was written at its offset at; a cursor past
\* the end of s, which an object that shares a block with another one can
\* have, leaves zeros between.
overwrite(s, at, p) ==
    IF at > Len(s) THEN s \o zeros(at - Len(s)) \o p
    ELSE SubSeq(s, 1, at) \o p \o SubSeq(s, at + Len(p) + 1, Len(s))

\* The number of blocks of the chain of the object name of d.
chainLen(d, name) == Len(blocks(d, d.objects[name].StartBlock).bb)

\* What the operation found: the free blocks, and the chain length and the
\* size of the object it names (0 when there is none).
Before(name) ==
    [free |-> Stats(db).FreeBlocks,
     len  |-> IF name \in DOMAIN db.objects THEN chainLen(db, name) ELSE 0,
     size |-> IF name \in DOMAIN db.objects THEN size(DBOpen(db, name).o)
              ELSE 0]

Did(op, name, err) ==
    [op |-> op, prev |-> blast.op, name |-> name, err |-> err,
     was |-> Before(name)]

InitBlock ==
    /\ db = BlockCreate
    /\ h = NoHandle
    /\ ideal = [n \in Names |-> NoObject]
    /\ blast = [op |-> "block.Create", prev |-> "", name |-> << >>,
                err |-> NoErr, was |-> [free |-> 0, len |-> 0, size |-> 0]]
    /\ bops = 0
    /\ OnlyBlock

\* No operation follows one that never returns or that ended the program.
CanCallBlock == bops < MaxBlockOps /\ blast.err \notin { "hang", panicIndex }

CreateObject(name) ==
    /\ CanCallBlock
    /\ \E r \in DBCreate(db, name) :
         /\ db' = r.d
         /\ h' = IF r.err = NoErr THEN Handle(name, r.o) ELSE NoHandle
         /\ ideal' = IF r.err = NoErr THEN [ideal EXCEPT ![name] = << >>]
                     ELSE ideal
         /\ blast' = Did("Create", name, r.err)
    /\ bops' = bops + 1
    /\ UNCHANGED notBlock

OpenObject(name) ==
    /\ CanCallBlock
    /\ LET r == DBOpen(db, name)
       IN  /\ h' = IF r.err = NoErr THEN Handle(name, r.o) ELSE NoHandle
           /\ blast' = Did("Open", name, r.err)
    /\ bops' = bops + 1
    /\ UNCHANGED << db, ideal, notBlock >>

DeleteObject(name) ==
    /\ CanCallBlock
    /\ \E r \in DBDelete(db, name) :
         /\ db' = r.d
         /\ ideal' = IF r.err = NoErr THEN [ideal EXCEPT ![name] = NoObject]
                     ELSE ideal
         /\ blast' = Did("Delete", name, r.err)
    /\ h' = IF h.open /\ h.name = name THEN NoHandle ELSE h
    /\ bops' = bops + 1
    /\ UNCHANGED notBlock

WriteObject(len) ==
    /\ CanCallBlock
    /\ h.open
    /\ LET p == payload(bops, len)
           w == write(db, h.o, p)
       IN  /\ db' = w.d
           /\ h' = [h EXCEPT !.o = w.o]
           /\ ideal' = [ideal EXCEPT ![h.name] =
                           overwrite(@, cursor(h.o), SubSeq(p, 1, w.n))]
           /\ blast' = Did("Write", h.name, w.err)
    /\ bops' = bops + 1
    /\ UNCHANGED notBlock

ReadObject(len) ==
    /\ CanCallBlock
    /\ h.open
    /\ LET r == read(db, h.o, len)
       IN  /\ h' = [h EXCEPT !.o = r.o]
           /\ blast' = Did("Read", h.name, r.err)
    /\ bops' = bops + 1
    /\ UNCHANGED << db, ideal, notBlock >>

SeekObject(offset, whence) ==
    /\ CanCallBlock
    /\ h.open
    /\ LET r == seek(h.o, offset, whence)
       IN  /\ h' = [h EXCEPT !.o = r.o]
           /\ blast' = Did("Seek", h.name, r.err)
    /\ bops' = bops + 1
    /\ UNCHANGED << db, ideal, notBlock >>

GrowFile(n) ==
    /\ CanCallBlock
    /\ LET r == Grow(db, n)
       IN  /\ db' = r.d
           /\ blast' = Did("Grow", << >>, r.err)
    /\ bops' = bops + 1
    /\ UNCHANGED << h, ideal, notBlock >>

\* block.Open over the file; the handle of the BlockDB before is given up.
ReopenFile ==
    /\ CanCallBlock
    /\ \E r \in BlockOpen(db) :
         /\ db' = r.d
         /\ blast' = Did("block.Open", << >>, r.err)
    /\ h' = NoHandle
    /\ bops' = bops + 1
    /\ UNCHANGED << ideal, notBlock >>

NextBlock ==
    \/ \E name \in Names : CreateObject(name)
    \/ \E name \in Names : OpenObject(name)
    \/ \E name \in Names : DeleteObject(name)
    \/ \E len \in WriteLens : WriteObject(len)
    \/ \E len \in ReadLens : ReadObject(len)
    \/ \E offset \in SeekOffsets, whence \in 0 .. 2 : SeekObject(offset, whence)
    \/ \E n \in 1 .. MaxGrow : GrowFile(n)
    \/ ReopenFile

SpecBlock == InitBlock /\ [][NextBlock]_vars

(***************************************************************************)
(* Specification SpecGrow: SpecBlock with Grow(0) among its calls, which   *)
(* adds no block and still links the free list to the block after the last *)
(* one of the file.                                                        *)
(***************************************************************************)
GrowNothing == GrowFile(0)

NextGrow ==
    \/ NextBlock
    \/ GrowNothing

SpecGrow == InitBlock /\ [][NextGrow]_vars

(***************************************************************************)
(* Claims about the block file and its objects (specification SpecBlock).  *)
(***************************************************************************)
\* Longest Read and farthest Seek looked at from a cursor position.
MaxRead == 2 * blockCap + 2

MaxSeek == 2 * blockCap + 1

\* C8: after Create(name) and Write(b), block.Open over the file and
\* Open(name) give an object whose Size() is len(b) and whose content read
\* to EOF is b.  Stated for every state of the file: whatever it is opened
\* from, every object has the size and the bytes of its flat stream.
C8_BlockRoundTrip ==
    \A r \in BlockOpen(db) :
        /\ r.err = NoErr
        /\ \A name \in Names :
             ideal[name] # NoObject =>
                LET op == DBOpen(r.d, name)
                    rd == read(r.d, op.o, Len(ideal[name]) + 1)
                IN  /\ op.err = NoErr
                    /\ size(op.o) = Len(ideal[name])
                    /\ rd.n = Len(ideal[name])
                    /\ rd.p = ideal[name]
                    /\ rd.err = "EOF"

\* An object written over more than two blocks was opened after the file
\* was opened again, and has the size of what was written.
C8_Witness ==
    /\ blast.op = "Open" /\ blast.prev = "block.Open" /\ blast.err = NoErr
    /\ h.open
    /\ Len(ideal[h.name]) > 2 * blockCap
    /\ size(h.o) = Len(ideal[h.name])
    /\ read(db, h.o, MaxRead).p = ideal[h.name]

\* C9: at every cursor position that Seek, Read and Write calls reach, at
\* the logical offset o, Read of len > 0 bytes returns the
\* min(len, Size() - o) bytes of the object from o on when o < Size(), and
\* (0, EOF) only when o = Size().
C9_ReadFlatStream ==
    (h.open /\ blast.err # "hang") =>
        \A len \in 1 .. MaxRead :
            LET o == cursor(h.o)
                r == read(db, h.o, len)
                n == Min(len, size(h.o) - o)
            IN  /\ o < size(h.o) =>
                      (r.n = n /\ r.p = SubSeq(ideal[h.name], o + 1, o + n))
                /\ (r.n = 0 /\ r.err = "EOF") => o = size(h.o)

\* C10: at every cursor position that Seek, Read and Write calls reach,
\* Seek(offset, whence) with target = base + offset inside 0 .. Size()
\* returns (target, nil) and leaves the cursor at the logical offset target;
\* base is 0, the current offset or Size().
C10_SeekNormal ==
    (h.open /\ blast.err # "hang") =>
        \A whence \in 0 .. 2, offset \in (0 - MaxSeek) .. MaxSeek :
            LET base   == IF whence = 0 THEN 0
                          ELSE IF whence = 1 THEN cursor(h.o)
                          ELSE size(h.o)
                target == base + offset
                r      == seek(h.o, offset, whence)
            IN  (0 <= target /\ target <= size(h.o)) =>
                    (r.err = NoErr /\ r.ret = target /\ cursor(r.o) = target)


\* C11: Seek(k, io.SeekEnd) with 0 <= k <= Size() returns Size() - k and
\* leaves the cursor k bytes before the end: the Read that follows returns
\* the bytes of the object from Size() - k on.
C11_SeekEndThenRead ==
    h.open =>
        \A k \in 0 .. size(h.o) :
            LET s  == seek(h.o, k, 2)
                rd == read(db, s.o, MaxRead)
            IN  /\ s.err = NoErr
                /\ s.ret = size(h.o) - k
                /\ cursor(s.o) = size(h.o) - k
                /\ k > 0 =>
                     rd.p = SubSeq(ideal[h.name], size(h.o) - k + 1,
                                   Min(size(h.o), size(h.o) - k + MaxRead))

\* C12: a Seek with its target after Size() or before 0 returns io.EOF; a
\* Seek with its target exactly at Size() succeeds and leaves the cursor at
\* (index of the tail block, End of the tail block); an unknown whence
\* returns an error and leaves the cursor where it was.  The target is
\* offset from the start, the current offset + offset, and Size() - offset
\* from the end.
C12_SeekOutOfRange ==
    (h.open /\ blast.err # "hang") =>
        /\ \A whence \in 0 .. 2, offset \in (0 - MaxSeek) .. MaxSeek :
            LET target == IF whence = 0 THEN offset
                          ELSE IF whence = 1 THEN cursor(h.o) + offset
                          ELSE size(h.o) - offset
                r      == seek(h.o, offset, whence)
                tail   == Len(h.o.blocks)
            IN  /\ (target < 0 \/ target > size(h.o)) => r.err = "EOF"
                /\ target = size(h.o) =>
                      /\ r.err = NoErr
                      /\ r.o.posBlockIdx = tail - 1
                      /\ r.o.posBlockOff = h.o.blocks[tail].End
        /\ LET r == seek(h.o, 0, 3)
           IN  r.err # NoErr /\ r.o = h.o

(***************************************************************************)
(* The chains of the block file.                                           *)
(***************************************************************************)
\* The blocks at which the chains of the file d start: the index object at
\* block 0, every object at its StartBlock, and the free list at
\* FirstFreeBlock, 0 standing for an empty list.
chainStarts(d) ==
    { 0 } \cup { d.objects[n].StartBlock : n \in DOMAIN d.objects }
          \cup ({ d.meta.FirstFreeBlock } \ { 0 })

\* The blocks of the chain that starts at the block start.
chainBlocks(d, start) ==
    LET bb == blocks(d, start).bb
    IN  { bb[i].idx : i \in 1 .. Len(bb) }

\* No two chains start at one block, every chain ends, no block is in two
\* chains, and every block of the file is in one.
Partitioned(d) ==
    /\ Cardinality(chainStarts(d)) =
          1 + Cardinality(DOMAIN d.objects)
            + (IF d.meta.FirstFreeBlock = 0 THEN 0 ELSE 1)
    /\ \A c \in chainStarts(d) : blocks(d, c).err = NoErr
    /\ \A c1, c2 \in chainStarts(d) :
          c1 # c2 => chainBlocks(d, c1) \cap chainBlocks(d, c2) = {}
    /\ UNION { chainBlocks(d, c) : c \in chainStarts(d) }
          = 0 .. d.fmeta.BlockCount - 1

\* C13: after block-file operations that all succeeded, every block of the
\* file is in exactly one chain - the index object's, one object's or the
\* free list's.
C13_BlockPartition == blast.err = NoErr => Partitioned(db)

\* C20: Grow(n) makes the file n x BlockSize bytes longer, for n = 0 too, no
\* operation of the block layer makes the file shorter, and after an
\* operation that returned nil the size of the file is the header size plus
\* BlockCount x BlockSize.
C20_FileSizeLaw ==
    [][ /\ FileSize(db') >= FileSize(db)
        /\ \A n \in 0 .. MaxGrow :
               (blast'.op = "Grow" /\ db' = Grow(db, n).d) =>
                   FileSize(db') = FileSize(db) + n * BlockSize
        /\ blast'.err = NoErr =>
               FileSize(db') = sizeDBMeta + db'.meta.BlockCount * BlockSize
      ]_vars

\* A Grow that returned nil on a file with an object of several blocks.
C20_Witness ==
    /\ blast.op = "Grow" /\ blast.err = NoErr
    /\ h.open /\ Len(h.o.blocks) >= 2
    /\ FileSize(db) >= sizeDBMeta + 4 * BlockSize

\* The indices of the blocks of the chain that starts at the block start, in
\* the order of the chain.
chainSeq(d, start) ==
    LET bb == blocks(d, start).bb IN [i \in 1 .. Len(bb) |-> bb[i].idx]

\* The free list, from FirstFreeBlock on.
freeSeq(d) ==
    IF d.meta.FirstFreeBlock = 0 THEN << >>
    ELSE chainSeq(d, d.meta.FirstFreeBlock)

\* The chains of the objects and of the index object are in e what they
\* are in d.
SameChains(d, e) ==
    /\ DOMAIN e.objects = DOMAIN d.objects
    /\ \A n \in DOMAIN d.objects :
          /\ e.objects[n].StartBlock = d.objects[n].StartBlock
          /\ blocks(e, e.objects[n].StartBlock)
                = blocks(d, d.objects[n].StartBlock)
    /\ blocks(e, 0) = blocks(d, 0)

\* C21: a Grow(n) that returned nil leaves FreeBlocks of Stats n higher, the
\* free list being the one before followed by the n new blocks, and the
\* chain of no object changed.
C21_GrowFreeList ==
    [][ \A n \in 0 .. MaxGrow :
          (blast'.op = "Grow" /\ blast'.err = NoErr /\ db' = Grow(db, n).d) =>
              /\ Stats(db).err = NoErr
              /\ Stats(db') = [Stats(db) EXCEPT !.FreeBlocks = @ + n]
              /\ freeSeq(db') =
                    freeSeq(db) \o [i \in 1 .. n |-> db.meta.BlockCount + i - 1]
              /\ SameChains(db, db')
      ]_vars

\* C22: BlockDB.Create of a name that exists returns an empty object on the
\* same start block, frees every other block of the old chain, so that
\* FreeBlocks goes up by the length of the old chain less one, and leaves
\* the number of objects alone.
C22_ReCreate ==
    [][ \A name \in Names :
          (/\ blast'.op = "Create" /\ blast'.name = name /\ blast'.err = NoErr
           /\ name \in DOMAIN db.objects) =>
              /\ h'.open /\ h'.name = name
              /\ size(h'.o) = 0
              /\ Len(h'.o.blocks) = 1
              /\ h'.o.blocks[1].idx = db.objects[name].StartBlock
              /\ db'.objects = db.objects
              /\ chainSeq(db', db.objects[name].StartBlock)
                   = << db.objects[name].StartBlock >>
              /\ size(DBOpen(db', name).o) = 0
              /\ Stats(db') = [Stats(db) EXCEPT
                                  !.FreeBlocks = @ + chainLen(db, name) - 1]
      ]_vars

\* Create has emptied an object of two blocks or more.
C22_Witness ==
    /\ blast.op = "Create" /\ blast.err = NoErr
    /\ blast.was.len >= 2 /\ blast.was.size > blockCap
    /\ chainLen(db, blast.name) = 1
    /\ Stats(db).FreeBlocks = blast.was.free + blast.was.len - 1

\* The least number of blocks of size per that hold n bytes.
ceilDiv(n, per) == (n + per - 1) \div per

\* Create follows a Delete of the same name that succeeded.
DeleteThenCreate(name) ==
    /\ blast.op = "Delete" /\ blast.name = name /\ blast.err = NoErr
    /\ blast'.op = "Create" /\ blast'.name = name /\ blast'.err = NoErr

\* C23 as stated: after Delete(name) and then Create(name), FreeBlocks is
\* less than before the Delete by ceil(prevSize / BlockSize) - 1.
C23_DeleteCreateStated ==
    [][ \A name \in Names :
          DeleteThenCreate(name) =>
              Stats(db').FreeBlocks
                = blast.was.free - (ceilDiv(blast.was.size, BlockSize) - 1)
      ]_vars

\* The blocks the index object gained in the step.
indexGain == Len(db'.indexObj) - Len(db.indexObj)

\* C23: after Delete(name) and then Create(name), FreeBlocks is more than
\* before the Delete by the number of blocks of the deleted chain less one,
\* the chain being one block or ceil(prevSize / payload of a block) blocks
\* (Delete frees the whole chain and Create takes one block back), less the
\* blocks the index object takes from the free list for the new metadata
\* chunk: none when the chunk Delete freed is used again.
C23_DeleteCreate ==
    [][ \A name \in Names :
          DeleteThenCreate(name) =>
              LET f == blast.was.free + blast.was.len
              IN  /\ blast.was.len = IF blast.was.size = 0 THEN 1
                                      ELSE ceilDiv(blast.was.size, blockCap)
                  /\ Stats(db).FreeBlocks = f
                  /\ Stats(db').FreeBlocks
                       = IF f - 1 - indexGain > 0 THEN f - 1 - indexGain ELSE 0
                  /\ db'.index.flen = db.index.flen => indexGain = 0
      ]_vars

\* Create has followed a Delete that left two free blocks or more and has
\* taken exactly one of them.
C23_Witness ==
    /\ blast.op = "Create" /\ blast.prev = "Delete" /\ blast.err = NoErr
    /\ blast.was.len = 0 /\ blast.was.free >= 2
    /\ Stats(db).FreeBlocks = blast.was.free - 1
    /\ blast.name \in DOMAIN db.objects

\* C24: BlockDB.Delete of an object that exists removes its name (Open then
\* fails with os.ErrNotExist and Stats counts one object less), frees its
\* metadata chunk in the index pool and puts its whole chain on the free
\* list (FreeBlocks goes up by the length of the chain); the name is still
\* absent when the file is opened again.  Delete of a name that does not
\* exist fails with os.ErrNotExist and changes nothing.
C24_Delete ==
    [][ \A name \in Names :
          (blast'.op = "Delete" /\ blast'.name = name) =>
              IF name \in DOMAIN db.objects
              THEN /\ blast'.err = NoErr
                   /\ DBOpen(db', name).err = "ErrNotExist"
                   /\ Stats(db') =
                        [Objects    |-> Stats(db).Objects - 1,
                         FreeBlocks |-> Stats(db).FreeBlocks
                                          + chainLen(db, name),
                         err        |-> NoErr]
                   /\ ~db.index.chunks[db.objects[name].chunk].free
                   /\ db'.index.chunks[db.objects[name].chunk].free
                   /\ \A n \in DOMAIN db.objects \ {name} :
                        /\ n \in DOMAIN db'.objects
                        /\ db'.objects[n] = db.objects[n]
                        /\ DBOpen(db', n) = DBOpen(db, n)
                   /\ \A r \in BlockOpen(db') :
                        /\ r.err = NoErr
                        /\ DOMAIN r.d.objects = DOMAIN db.objects \ {name}
                        /\ DBOpen(r.d, name).err = "ErrNotExist"
              ELSE /\ blast'.err = "ErrNotExist"
                   /\ db' = db
      ]_vars

\* Delete has freed an object of two blocks or more while another object
\* stays.
C24_Witness ==
    /\ blast.op = "Delete" /\ blast.err = NoErr
    /\ blast.was.len >= 2
    /\ blast.name \notin DOMAIN db.objects
    /\ DOMAIN db.objects # {}
    /\ Stats(db).FreeBlocks = blast.was.free + blast.was.len

\* The blocks a Write of len bytes at the cursor of o needs past the chain
\* of o: every block holds blockCap bytes of payload.
needed(o, len) ==
    LET end  == o.posBlockIdx * blockCap + o.posBlockOff + len
        more == ceilDiv(end, blockCap) - Len(o.blocks)
    IN  IF more > 0 THEN more ELSE 0

\* C25: Object.Write takes blocks from the free list before it grows the
\* file.  A Write that fits in the tail block changes neither FreeBlocks nor
\* BlockCount; one that needs k blocks more with f blocks free takes the
\* first min(k, f) blocks of the free list and grows the file by
\* max(0, k - f) blocks.
C25_WriteAlloc ==
    [][ (blast'.op = "Write" /\ blast'.err = NoErr) =>
          LET len  == h'.o.offset - h.o.offset
              k    == Len(h'.o.blocks) - Len(h.o.blocks)
              f    == Stats(db).FreeBlocks
              took == IF k < f THEN k ELSE f
              new  == [i \in 1 .. k |-> h'.o.blocks[Len(h.o.blocks) + i].idx]
          IN  /\ Stats(db).err = NoErr
              /\ k = needed(h.o, len)
              /\ (/\ h.o.posBlockIdx + 1 = Len(h.o.blocks)
                  /\ len <= blockCap - h.o.posBlockOff) => k = 0
              /\ Stats(db') = [Stats(db) EXCEPT !.FreeBlocks = f - took]
              /\ db'.meta.BlockCount = db.meta.BlockCount + (k - took)
              /\ SubSeq(new, 1, took) = SubSeq(freeSeq(db), 1, took)
              /\ freeSeq(db') = SubSeq(freeSeq(db), took + 1, f)
              /\ \A i \in took + 1 .. k :
                    new[i] = db.meta.BlockCount + i - took - 1
              /\ chainSeq(db', h'.o.blocks[1].idx)
                    = [i \in 1 .. Len(h'.o.blocks) |-> h'.o.blocks[i].idx]
      ]_vars

\* Write has taken the whole free list and grown the file as well.
C25_Witness ==
    /\ blast.op = "Write" /\ blast.err = NoErr
    /\ blast.was.free >= 1
    /\ Stats(db).FreeBlocks = 0
    /\ chainLen(db, blast.name) > blast.was.len + blast.was.free

\* C29: the free list is well formed: FirstFreeBlock and every Next are 0
\* or the index of a block of the file, the chain from FirstFreeBlock ends
\* at a block with Next = 0 without passing a block twice, every block on
\* it has End = 0, and block 0 is not on it, so that counting the free
\* blocks ends.
C29_FreeListWellFormed ==
    blast.err \notin { "hang", panicIndex } =>
        /\ db.meta.FirstFreeBlock \in 0 .. db.meta.BlockCount - 1
        /\ db.fmeta = db.meta
        /\ DOMAIN db.blk = 0 .. db.meta.BlockCount - 1
        /\ \A i \in DOMAIN db.blk : db.blk[i].Next \in 0 .. db.meta.BlockCount - 1
        /\ blocks(db, db.meta.FirstFreeBlock).err = NoErr
        /\ Cardinality({ freeSeq(db)[i] : i \in 1 .. Len(freeSeq(db)) })
             = Len(freeSeq(db))
        /\ \A i \in 1 .. Len(freeSeq(db)) :
              /\ freeSeq(db)[i] # 0
              /\ db.blk[freeSeq(db)[i]].End = 0
        /\ Stats(db).err = NoErr
        /\ Stats(db).FreeBlocks = Len(freeSeq(db))

\* C38: after a Write that returned nil every block of the chain of the
\* object but the last is full, the last has Next = 0 and, when it is not
\* the only one, holds a byte; the size of the object is the full blocks
\* plus the End of the last; and the chain on the stream is the chain of the
\* object in memory.
C38_PackedChain ==
    (blast.op = "Write" /\ blast.err = NoErr /\ h.open) =>
        LET bb   == h.o.blocks
            tail == Len(bb)
        IN  /\ \A i \in 1 .. tail - 1 :
                  bb[i].End = blockCap /\ bb[i].Next = bb[i + 1].idx
            /\ bb[tail].Next = 0
            /\ tail > 1 => bb[tail].End > 0
            /\ size(h.o) = (tail - 1) * blockCap + bb[tail].End
            /\ blocks(db, bb[1].idx) = [bb |-> bb, err |-> NoErr]

\* A Write after a Seek that ended before the last block of a chain of three
\* blocks or more.
C38_Witness ==
    /\ blast.op = "Write" /\ blast.err = NoErr /\ blast.prev = "Seek"
    /\ h.open /\ Len(h.o.blocks) >= 3
    /\ h.o.posBlockIdx + 1 < Len(h.o.blocks)

\* C39: the cursor of the open object is in a block of its chain, at most at
\* the End of that block, and the offset that Seek(0, current) reports is the
\* bytes of the blocks before the cursor's block plus posBlockOff.
C39_CursorConsistent ==
    h.open =>
        /\ h.o.posBlockIdx \in 0 .. Len(h.o.blocks) - 1
        /\ h.o.posBlockOff \in 0 .. h.o.blocks[h.o.posBlockIdx + 1].End
        /\ seek(h.o, 0, 1).ret = cursor(h.o)

\* C40: every Seek on the open object returns, with an error or with a
\* position from 0 to the size of the object.
C40_SeekTerminates ==
    \A offset \in SeekOffsets, whence \in 0 .. 2 :
        h.open =>
            LET r == seek(h.o, offset, whence)
            IN  /\ r.err # "hang"
                /\ r.err = NoErr => r.ret \in 0 .. size(h.o)
(***************************************************************************)
(* Specification SpecStore: one store over a block file that starts empty, *)
(* write transactions one after the other, and the store opened again over *)
(* the file between them.                                                  *)
(*   st     the store and its block file                                   *)
(*   wtx    the write transaction, with n, the number of its Set and       *)
(*          Delete calls                                                   *)
(*   kept   bucket -> key -> what the committed transactions left for the  *)
(*          key: [is, val] with is "none", "value", "deleted", or          *)
(*          "unsettled" after a Commit that returned an error              *)
(*   slast  the last operation: [op, err, sets, dels], for a Commit the    *)
(*          <<bucket, key, value>> it had to write and the <<bucket, key>> *)
(*          it had to delete                                               *)
(*   sops   number of operations so far                                    *)
(***************************************************************************)
\* Number of store operations in one run.
MaxStoreOps == 8

\* Number of Set and Delete calls in one transaction.
MaxTxOps == 2

\* Bucket names of the model: "a" and "bucket/a".
StoreBuckets == { << 97 >>, bucketPath(<< 97 >>) }

\* Keys of the model: "aa" and "gs".
StoreKeys == { << 97, 97 >>, << 103, 115 >> }

\* Values of the model.
StoreValues == { 1, 2 }

NoTx ==
    [active |-> FALSE, locked |-> FALSE, writeCache |-> << >>,
     deleteCache |-> << >>, n |-> 0]

Kept(is, val) == [is |-> is, val |-> val]

StoreDid(op, err) == [op |-> op, err |-> err, sets |-> {}, dels |-> {}]

\* What an active transaction has to write and to delete when it commits.
TxSets(w) ==
    { t \in StoreBuckets \X StoreKeys \X StoreValues :
        /\ t[1] \in DOMAIN w.writeCache
        /\ t[2] \in DOMAIN w.writeCache[t[1]]
        /\ ~isDeleted(w, t[1], t[2])
        /\ jsonToNumber(w.writeCache[t[1]][t[2]]) = t[3] }

TxDels(w) == { t \in StoreBuckets \X StoreKeys : isDeleted(w, t[1], t[2]) }

InitStore ==
    /\ st \in { o.s : o \in New(<< >>) }
    /\ wtx = NoTx
    /\ kept = [b \in StoreBuckets |-> [k \in StoreKeys |-> Kept("none", 0)]]
    /\ slast = StoreDid("New", NoErr)
    /\ sops = 0
    /\ OnlyStore

\* No operation follows one that never returns.
CanCallStore == sops < MaxStoreOps /\ slast.err # "hang"

BeginWrite ==
    /\ CanCallStore
    /\ ~wtx.active
    /\ wtx' = [NoTx EXCEPT !.active = Writer.active, !.locked = Writer.locked,
                           !.writeCache = Writer.writeCache,
                           !.deleteCache = Writer.deleteCache]
    /\ slast' = StoreDid("Writer", NoErr)
    /\ sops' = sops + 1
    /\ UNCHANGED << st, kept, notStore >>

SetKey(b, k, v) ==
    /\ CanCallStore
    /\ wtx.active /\ wtx.n < MaxTxOps
    /\ wtx' = [writeTxSet(wtx, b, k, v) EXCEPT !.n = @ + 1]
    /\ slast' = [StoreDid("Set", NoErr) EXCEPT !.sets = { << b, k, v >> }]
    /\ sops' = sops + 1
    /\ UNCHANGED << st, kept, notStore >>

DeleteKey(b, k) ==
    /\ CanCallStore
    /\ wtx.active /\ wtx.n < MaxTxOps
    /\ wtx' = [writeTxDelete(wtx, b, k) EXCEPT !.n = @ + 1]
    /\ slast' = [StoreDid("Delete", NoErr) EXCEPT !.dels = { << b, k >> }]
    /\ sops' = sops + 1
    /\ UNCHANGED << st, kept, notStore >>

CommitTx ==
    /\ CanCallStore
    /\ wtx.active
    /\ \E o \in writeTxCommit(st, wtx) :
         /\ st' = o.s
         /\ kept' = [b \in StoreBuckets |-> [k \in StoreKeys |->
                       IF o.err # NoErr
                       THEN IF \/ << b, k >> \in TxDels(wtx)
                               \/ \E v \in StoreValues :
                                    << b, k, v >> \in TxSets(wtx)
                            THEN Kept("unsettled", 0)
                            ELSE kept[b][k]
                       ELSE IF << b, k >> \in TxDels(wtx)
                       THEN Kept("deleted", 0)
                       ELSE IF \E v \in StoreValues :
                                 << b, k, v >> \in TxSets(wtx)
                       THEN Kept("value",
                                 CHOOSE v \in StoreValues :
                                     << b, k, v >> \in TxSets(wtx))
                       ELSE kept[b][k]]]
         /\ slast' = [op |-> "Commit", err |-> o.err, sets |-> TxSets(wtx),
                      dels |-> TxDels(wtx)]
    /\ wtx' = NoTx
    /\ sops' = sops + 1
    /\ UNCHANGED notStore

RollbackTx ==
    /\ CanCallStore
    /\ wtx.active
    /\ wtx' = writeTxRollback(wtx)
    /\ slast' = StoreDid("Rollback", NoErr)
    /\ sops' = sops + 1
    /\ UNCHANGED << st, kept, notStore >>

\* kvstore.New again over the block file, no transaction being open.
ReopenStore ==
    /\ CanCallStore
    /\ ~wtx.active
    /\ \E o \in New(st.file) :
         /\ st' = o.s
         /\ slast' = StoreDid("Reopen", o.err)
    /\ wtx' = NoTx
    /\ sops' = sops + 1
    /\ UNCHANGED << kept, notStore >>

NextStore ==
    \/ BeginWrite
    \/ \E b \in StoreBuckets, k \in StoreKeys, v \in StoreValues : SetKey(b, k, v)
    \/ \E b \in StoreBuckets, k \in StoreKeys : DeleteKey(b, k)
    \/ CommitTx
    \/ RollbackTx
    \/ ReopenStore

SpecStore == InitStore /\ [][NextStore]_vars

(***************************************************************************)
(* Claims about the store (specification SpecStore).  Get and List change  *)
(* nothing, so a read transaction started after an operation reads the     *)
(* state the operation left.                                               *)
(***************************************************************************)
\* C6: in the store opened again over the file, Get(bucket, k) returns the
\* value the committed transactions left for k, and a not-found error for a
\* key whose Delete was committed.
C6_StoreReopenGet ==
    (slast.op = "Reopen" /\ slast.err = NoErr) =>
        \A b \in StoreBuckets, k \in StoreKeys :
            /\ kept[b][k].is = "value" =>
                  readTxGet(st, b, k) = [err |-> NoErr, val |-> kept[b][k].val]
            /\ kept[b][k].is = "deleted" =>
                  readTxGet(st, b, k).err \in
                      { "ErrKeyNotFound", "ErrBucketNotFound" }

\* C7: after a Commit that returned nil, Get(bucket, k) returns v and
\* List(bucket) holds k, for every Set(bucket, k, v) the transaction had to
\* write.
C7_VisibleAtCommit ==
    (slast.op = "Commit" /\ slast.err = NoErr) =>
        \A w \in slast.sets :
            /\ readTxGet(st, w[1], w[2]) = [err |-> NoErr, val |-> w[3]]
            /\ \E i \in DOMAIN readTxList(st, w[1]).keys :
                   readTxList(st, w[1]).keys[i] = w[2]


\* The pending writes and deletes of w for the keys other than (b, k).
otherPending(w, b, k) ==
    << { x \in TxSets(w) : << x[1], x[2] >> # << b, k >> },
       TxDels(w) \ { << b, k >> } >>

\* The key k as store.buckets[b] holds it.
onDisk(s, b, k) == Load(s.buckets[b], k)

\* C19: in a write transaction the last of Set and Delete for a key wins: a
\* Set makes its value the pending write of the key and takes the key out of
\* the pending deletes, a Delete makes the key a pending delete and takes it
\* out of the pending writes, neither touches another key, and Get in the
\* transaction answers from the two caches, the set value after a Set and
\* ErrKeyNotFound after a Delete.  A Commit that returns nil has written
\* every pending write and left no key of a pending delete in its bucket;
\* the writes come first, so that a Commit failing in a delete has written
\* them all.
C19_Coalescing ==
    [][ /\ slast'.op = "Set" =>
             \A w \in slast'.sets :
                 /\ w \in TxSets(wtx')
                 /\ << w[1], w[2] >> \notin TxDels(wtx')
                 /\ \A v \in StoreValues \ { w[3] } :
                        << w[1], w[2], v >> \notin TxSets(wtx')
                 /\ writeTxGet(st', wtx', w[1], w[2])
                        = [err |-> NoErr, val |-> w[3]]
                 /\ otherPending(wtx', w[1], w[2])
                        = otherPending(wtx, w[1], w[2])
        /\ slast'.op = "Delete" =>
             \A x \in slast'.dels :
                 /\ x \in TxDels(wtx')
                 /\ \A v \in StoreValues :
                        << x[1], x[2], v >> \notin TxSets(wtx')
                 /\ writeTxGet(st', wtx', x[1], x[2]).err = "ErrKeyNotFound"
                 /\ otherPending(wtx', x[1], x[2])
                        = otherPending(wtx, x[1], x[2])
        /\ (slast'.op = "Commit" /\ slast'.err \in { NoErr, "key not found" }) =>
             \A w \in TxSets(wtx) :
                 /\ w[1] \in DOMAIN st'.buckets
                 /\ onDisk(st', w[1], w[2]) = Found(jsonNumber(w[3]))
        /\ (slast'.op = "Commit" /\ slast'.err = NoErr) =>
             \A x \in TxDels(wtx) :
                 x[1] \in DOMAIN st'.buckets =>
                     /\ onDisk(st', x[1], x[2]).err = NoErr
                     /\ ~onDisk(st', x[1], x[2]).found
      ]_vars

\* A transaction has done Set and then Delete of a key its bucket holds:
\* the key is a pending delete, its value still in the write cache.
C19_Witness ==
    /\ wtx.active /\ slast.op = "Delete"
    /\ \E x \in slast.dels :
          /\ x[1] \in DOMAIN wtx.writeCache
          /\ x[2] \in DOMAIN wtx.writeCache[x[1]]
          /\ x[1] \in DOMAIN st.buckets
          /\ onDisk(st, x[1], x[2]).found
          /\ writeTxGet(st, wtx, x[1], x[2]).err = "ErrKeyNotFound"

\* The pending deletes of w whose key the bucket on disk, which exists,
\* does not hold.
AbsentDels(s, w) ==
    { x \in TxDels(w) :
        /\ x[1] \in DOMAIN s.buckets
        /\ onDisk(s, x[1], x[2]).err = NoErr
        /\ ~onDisk(s, x[1], x[2]).found }

\* C33: a Commit whose pending deletes name a key that its bucket, which
\* exists, does not hold returns nil, has applied the pending writes and
\* leaves the key absent.
C33_CommitAbsentDelete ==
    [][ (slast'.op = "Commit" /\ AbsentDels(st, wtx) # {}) =>
            /\ slast'.err = NoErr
            /\ \A w \in TxSets(wtx) :
                  /\ w[1] \in DOMAIN st'.buckets
                  /\ onDisk(st', w[1], w[2]) = Found(jsonNumber(w[3]))
            /\ \A x \in AbsentDels(st, wtx) :
                  ~onDisk(st', x[1], x[2]).found
      ]_vars

(***************************************************************************)
(* Specification SpecLock: the mutexes of one block file taken and released*)
(* by goroutines that run public operations of the block package.  An     *)
(* operation is the sequence of its Lock and Unlock calls, the calls it    *)
(* makes included; the data it moves is that of SpecBlock and is left out. *)
(*   held   mutex -> the goroutine holding it, 0 for none                  *)
(*   gor    goroutine -> [op, pc]: the operation it runs and the index of  *)
(*          its next Lock or Unlock, op "idle" between operations          *)
(*   made   [objects, free]: the number of objects of the file and of free *)
(*          chunks of its index pool                                       *)
(* The mutexes: "db" is BlockDB.m, "indexObj" the Object.m of db.indexObj, *)
(* "index" the Pool.m of db.index, "obj" the Object.m of an object the     *)
(* goroutines share.                                                       *)
(***************************************************************************)
\* Number of goroutines.
MaxGoroutines == 2

\* Number of objects above which no goroutine calls Create of a new name.
MaxLockObjects == 2

Goroutines == 1 .. MaxGoroutines

Mutexes == { "index", "indexObj", "obj", "db" }

\* The place of a mutex in the order store, hash-map, chunk pool, object,
\* block file.
lockRank(l) ==
    CASE l = "index" -> 3
      [] l = "indexObj" -> 4
      [] l = "obj" -> 4
      [] l = "db" -> 5

Lock(l) == << "Lock", l >>

Unlock(l) == << "Unlock", l >>

\* Object.Seek, Object.Stats and Object.Size of the object with mutex o.
lockSeek(o) == << Lock(o), Unlock(o) >>

\* Object.Write and Object.Read: o.m, then o.db.m.
lockWrite(o) == << Lock(o), Lock("db"), Unlock("db"), Unlock(o) >>

\* Chunk.writeHeader on the index pool: a Seek and the three binary.Write
\* of writeHeaderTo.
lockWriteHeader ==
    lockSeek("indexObj") \o lockWrite("indexObj") \o lockWrite("indexObj")
        \o lockWrite("indexObj")

\* Pool.AllocAndWrite on the index pool: Alloc, which rewrites the header of
\* a free chunk (reuse) or runs Chunk.initialize, and Chunk.Write.
lockAllocAndWrite(reuse) ==
    << Lock("index") >>
        \o (IF reuse THEN lockWriteHeader
            ELSE lockWriteHeader \o lockWrite("indexObj"))
        \o << Unlock("index") >>
        \o << Lock("index") >> \o lockWriteHeader \o lockWrite("indexObj")
        \o << Unlock("index") >>

\* Chunk.Free on the index pool.
lockFree == << Lock("index") >> \o lockWriteHeader \o << Unlock("index") >>

\* The operations a goroutine calls.  A Create becomes a CreateReuse in
\* Pool.Alloc when the index pool has a free chunk.
LockOps == { "Stats", "Create", "CreateAgain", "Delete", "Grow", "Write", "Seek" }

\* The Lock and Unlock calls of a public operation, in order.
\*   Create       BlockDB.Create of a new name, the index pool growing
\*   CreateReuse  the same, the index pool reusing a free chunk
\*   CreateAgain  BlockDB.Create of a name that exists
\*   Delete       BlockDB.Delete of a name that exists
\*   Grow         BlockDB.Grow; Open, FileSize, Meta, Blocks, Objects and
\*                Delete of a missing name lock the same way
\*   Write, Seek  Object.Write (or Read) and Object.Seek on the shared object
lockProgram(op) ==
    CASE op = "Stats" ->
           << Lock("db") >> \o lockSeek("indexObj") \o << Unlock("db") >>
      [] op = "Create" ->
           << Lock("db"), Unlock("db") >> \o lockAllocAndWrite(FALSE)
               \o << Lock("db"), Unlock("db") >>
      [] op = "CreateReuse" ->
           << Lock("db"), Unlock("db") >> \o lockAllocAndWrite(TRUE)
               \o << Lock("db"), Unlock("db") >>
      [] op = "CreateAgain" -> << Lock("db"), Unlock("db") >>
      [] op = "Delete" ->
           << Lock("db"), Unlock("db") >> \o lockFree
               \o << Lock("db"), Unlock("db") >>
      [] op = "Grow" -> << Lock("db"), Unlock("db") >>
      [] op = "Write" -> lockWrite("obj")
      [] op = "Seek" -> lockSeek("obj")

idle == [op |-> "idle", pc |-> 0]

\* The next Lock or Unlock of goroutine t, << >> when it has none.
nextCall(t) ==
    IF gor[t].op = "idle" \/ gor[t].pc > Len(lockProgram(gor[t].op))
    THEN << "none", "none" >>
    ELSE lockProgram(gor[t].op)[gor[t].pc]

InitLock ==
    /\ held = [l \in Mutexes |-> 0]
    /\ gor = [t \in Goroutines |-> idle]
    /\ made = [objects |-> 0, free |-> 0]
    /\ OnlyLock

Running(op) == { t \in Goroutines : gor[t].op = op }

\* Goroutine t calls a public operation: Create of a name no goroutine is
\* creating, CreateAgain of a name that exists, Delete of a name that exists
\* and that no other goroutine is deleting.
Call(t, op) ==
    /\ gor[t].op = "idle"
    /\ op = "Create" => made.objects < MaxLockObjects
    /\ op = "CreateAgain" => made.objects > 0
    /\ op = "Delete" => made.objects > Cardinality(Running("Delete"))
    /\ gor' = [gor EXCEPT ![t] = [op |-> op, pc |-> 1]]
    /\ UNCHANGED << held, made, notLock >>

\* The mutex t has just locked is Pool.m in Pool.Alloc, the pool having a
\* free chunk.
allocReuses(t) ==
    /\ gor[t].op = "Create"
    /\ lockProgram("Create")[gor[t].pc] = Lock("index")
    /\ Lock("index") \notin
          { lockProgram("Create")[i] : i \in 1 .. gor[t].pc - 1 }
    /\ made.free > 0

\* sync.Mutex.Lock returns once no goroutine, t included, holds the mutex.
\* Pool.Alloc takes a free chunk, and Chunk.Free makes one, under Pool.m.
Acquire(t) ==
    /\ nextCall(t)[1] = "Lock"
    /\ held[nextCall(t)[2]] = 0
    /\ held' = [held EXCEPT ![nextCall(t)[2]] = t]
    /\ gor' = [gor EXCEPT ![t].pc = @ + 1,
                          ![t].op = IF allocReuses(t) THEN "CreateReuse" ELSE @]
    /\ made' = [made EXCEPT !.free =
                   IF allocReuses(t) THEN @ - 1
                   ELSE IF gor[t].op = "Delete" /\ nextCall(t)[2] = "index"
                   THEN @ + 1
                   ELSE @]
    /\ UNCHANGED notLock

Release(t) ==
    /\ nextCall(t)[1] = "Unlock"
    /\ held' = [held EXCEPT ![nextCall(t)[2]] = 0]
    /\ gor' = [gor EXCEPT ![t].pc = @ + 1]
    /\ UNCHANGED << made, notLock >>

\* The operation of t returns: Create has put the object in db.objects,
\* Delete has taken it out.
Return(t) ==
    /\ gor[t].op # "idle"
    /\ gor[t].pc > Len(lockProgram(gor[t].op))
    /\ gor' = [gor EXCEPT ![t] = idle]
    /\ made' = [made EXCEPT !.objects =
                   IF gor[t].op \in { "Create", "CreateReuse" } THEN @ + 1
                   ELSE IF gor[t].op = "Delete" THEN @ - 1
                   ELSE @]
    /\ UNCHANGED << held, notLock >>

NextLock ==
    \/ \E t \in Goroutines, op \in LockOps : Call(t, op)
    \/ \E t \in Goroutines : Acquire(t)
    \/ \E t \in Goroutines : Release(t)
    \/ \E t \in Goroutines : Return(t)

SpecLock == InitLock /\ [][NextLock]_vars

(***************************************************************************)
(* Claims about the locks (specification SpecLock).                        *)
(***************************************************************************)
\* Goroutine t is in Lock on a mutex that is held.
Blocked(t) == nextCall(t)[1] = "Lock" /\ held[nextCall(t)[2]] # 0

\* Some goroutines wait for mutexes that only they hold: none of them ever
\* goes on.
Deadlocked ==
    \E S \in SUBSET Goroutines :
        /\ S # {}
        /\ \A t \in S : Blocked(t) /\ held[nextCall(t)[2]] \in S

\* C17: a goroutine that calls Lock holds no mutex of the same or of a later
\* place in the order store, hash-map, chunk pool, object, block file, and
\* no goroutines are left waiting for each other, whichever public
\* operations run together.
C17_LockOrder ==
    /\ \A t \in Goroutines : nextCall(t)[1] = "Lock" =>
          \A l \in Mutexes :
              held[l] = t => lockRank(l) < lockRank(nextCall(t)[2])
    /\ ~Deadlocked

(***************************************************************************)
(* Specification SpecTx: goroutines that open read and write transactions  *)
(* on one store, Commit being one step for each pending write and delete.  *)
(* The buckets are maps from keys to payloads; the hash-maps that hold     *)
(* them are those of SpecStore.                                            *)
(*   stm      store.m: [writer, readers], writer 0 for none                *)
(*   txs      goroutine -> its transaction: [kind, w, n, done, err,        *)
(*            looked, saw]; kind is "none", "read", "write" or "commit"    *)
(*            (inside writeTx.Commit), w the writeTx, n its Set and Delete *)
(*            calls, done the pending items Commit has gone through, saw   *)
(*            the buckets as the last Get of a read transaction found them *)
(*   data     store.buckets: bucket -> key -> payload                      *)
(*   settled  [data, batch]: the buckets when the last Commit returned and *)
(*            the number of writes and deletes it applied                  *)
(***************************************************************************)
TxBuckets == { << 97 >> }

noTx ==
    [kind |-> "none", w |-> Writer, n |-> 0, done |-> {}, err |-> NoErr,
     looked |-> FALSE, saw |-> << >>]

\* sync.RWMutex: RLock returns when no writer holds the mutex, Lock when
\* nobody holds it.
canRLock_Always(l) == TRUE

canRLock(l) == l.writer = 0

canLock(l) == l.writer = 0 /\ l.readers = {}

InitTx ==
    /\ stm = [writer |-> 0, readers |-> {}]
    /\ txs = [t \in Goroutines |-> noTx]
    /\ data = << >>
    /\ settled = [data |-> << >>, batch |-> 0]
    /\ OnlyTx

\* store.Reader.
Reader(t) ==
    /\ txs[t].kind = "none"
    /\ canRLock(stm)
    /\ stm' = [stm EXCEPT !.readers = @ \cup { t }]
    /\ txs' = [txs EXCEPT ![t] = [noTx EXCEPT !.kind = "read"]]
    /\ UNCHANGED << data, settled, notTx >>

\* readTx.Get and readTx.List read store.buckets and the hash-maps in it.
ReaderGet(t) ==
    /\ txs[t].kind = "read"
    /\ txs' = [txs EXCEPT ![t].looked = TRUE, ![t].saw = data]
    /\ UNCHANGED << stm, data, settled, notTx >>

\* readTx.Commit and readTx.Rollback.
ReaderDone(t) ==
    /\ txs[t].kind = "read"
    /\ stm' = [stm EXCEPT !.readers = @ \ { t }]
    /\ txs' = [txs EXCEPT ![t] = noTx]
    /\ UNCHANGED << data, settled, notTx >>

\* store.Writer.
TxWriter(t) ==
    /\ txs[t].kind = "none"
    /\ canLock(stm)
    /\ stm' = [stm EXCEPT !.writer = t]
    /\ txs' = [txs EXCEPT ![t] = [noTx EXCEPT !.kind = "write"]]
    /\ UNCHANGED << data, settled, notTx >>

TxSet(t, b, k, v) ==
    /\ txs[t].kind = "write" /\ txs[t].n < MaxTxOps
    /\ txs' = [txs EXCEPT ![t].w = writeTxSet(@, b, k, v), ![t].n = @ + 1]
    /\ UNCHANGED << stm, data, settled, notTx >>

TxDelete(t, b, k) ==
    /\ txs[t].kind = "write" /\ txs[t].n < MaxTxOps
    /\ txs' = [txs EXCEPT ![t].w = writeTxDelete(@, b, k), ![t].n = @ + 1]
    /\ UNCHANGED << stm, data, settled, notTx >>

\* writeTx.Rollback.
TxRollback(t) ==
    /\ txs[t].kind = "write"
    /\ stm' = [stm EXCEPT !.writer = 0]
    /\ txs' = [txs EXCEPT ![t] = noTx]
    /\ UNCHANGED << data, settled, notTx >>

\* writeTx.Commit is called.
TxCommit(t) ==
    /\ txs[t].kind = "write"
    /\ txs' = [txs EXCEPT ![t].kind = "commit"]
    /\ UNCHANGED << stm, data, settled, notTx >>

\* What Commit has still to write, and once that is empty to delete.
pendingWrites(x) ==
    { i \in { << "write", b, k >> : b \in TxBuckets, k \in StoreKeys } :
        /\ i[2] \in DOMAIN x.w.writeCache
        /\ i[3] \in DOMAIN x.w.writeCache[i[2]]
        /\ ~isDeleted(x.w, i[2], i[3]) } \ x.done

pendingDeletes(x) ==
    { i \in { << "delete", b, k >> : b \in TxBuckets, k \in StoreKeys } :
        isDeleted(x.w, i[2], i[3]) } \ x.done

\* One round of a loop of writeTx.Commit: a pending write, or with none left
\* a pending delete, which fails for a key the bucket does not hold.
CommitStep(t) ==
    /\ txs[t].kind = "commit" /\ txs[t].err = NoErr
    /\ \E i \in IF pendingWrites(txs[t]) # {} THEN pendingWrites(txs[t])
                ELSE pendingDeletes(txs[t]) :
         LET b == i[2]
             k == i[3]
             old == IF b \in DOMAIN data THEN data[b] ELSE << >>
         IN  /\ data' =
                  IF i[1] = "write"
                  THEN (b :> ((k :> txs[t].w.writeCache[b][k]) @@ old)) @@ data
                  ELSE IF b \in DOMAIN data /\ k \in DOMAIN data[b]
                  THEN [data EXCEPT ![b] =
                          [j \in DOMAIN data[b] \ { k } |-> data[b][j]]]
                  ELSE data
             /\ txs' = [txs EXCEPT
                          ![t].done = @ \cup { i },
                          ![t].err =
                             IF /\ i[1] = "delete"
                                /\ b \in DOMAIN data
                                /\ k \notin DOMAIN data[b]
                             THEN "key not found" ELSE NoErr]
    /\ UNCHANGED << stm, settled, notTx >>

\* writeTx.Commit returns, after its loops or with the error of one round:
\* the deferred store.m.Unlock.
CommitReturn(t) ==
    /\ txs[t].kind = "commit"
    /\ \/ txs[t].err # NoErr
       \/ pendingWrites(txs[t]) = {} /\ pendingDeletes(txs[t]) = {}
    /\ stm' = [stm EXCEPT !.writer = 0]
    /\ settled' = [data |-> data, batch |-> Cardinality(txs[t].done)]
    /\ txs' = [txs EXCEPT ![t] = noTx]
    /\ UNCHANGED << data, notTx >>

NextTx ==
    \/ \E t \in Goroutines : Reader(t)
    \/ \E t \in Goroutines : ReaderGet(t)
    \/ \E t \in Goroutines : ReaderDone(t)
    \/ \E t \in Goroutines : TxWriter(t)
    \/ \E t \in Goroutines, b \in TxBuckets, k \in StoreKeys,
          v \in StoreValues : TxSet(t, b, k, v)
    \/ \E t \in Goroutines, b \in TxBuckets, k \in StoreKeys : TxDelete(t, b, k)
    \/ \E t \in Goroutines : TxRollback(t)
    \/ \E t \in Goroutines : TxCommit(t)
    \/ \E t \in Goroutines : CommitStep(t)
    \/ \E t \in Goroutines : CommitReturn(t)

SpecTx == InitTx /\ [][NextTx]_vars

(***************************************************************************)
(* Claims about transactions that run together (specification SpecTx).     *)
(***************************************************************************)
\* C18: a write transaction holds the write lock of the store from Writer
\* until its Commit or Rollback returns and a read transaction the read lock
\* from Reader until its Commit or Rollback; so no read transaction is open
\* while a write transaction is, and what a read transaction finds is the
\* buckets as the last Commit left them when it returned, never the buckets
\* with part of the writes and deletes of a Commit that is under way.
C18_CommitIsolation ==
    \A t \in Goroutines :
        /\ txs[t].kind \in { "write", "commit" } => stm.writer = t
        /\ txs[t].kind = "read" =>
              /\ t \in stm.readers
              /\ \A u \in Goroutines : txs[u].kind \notin { "write", "commit" }
              /\ data = settled.data
              /\ txs[t].looked => txs[t].saw = settled.data

\* A read transaction has read the buckets after a Commit of two items.
C18_Witness ==
    \E t \in Goroutines :
        /\ txs[t].kind = "read" /\ txs[t].looked
        /\ settled.batch >= 2
        /\ settled.data # << >>

(***************************************************************************)
(* SpecCreate: block.Create on a stream that holds anything, with any      *)
(* block size.  The stream is its bytes.                                   *)
(***************************************************************************)
MaxStream == 3

\* The streams block.Create is called on, and the block sizes asked for.
Streams == UNION { [1 .. n -> {0, 1}] : n \in 0 .. MaxStream }

BlockSizes == 0 .. BlockSize + 1

Magic == 1978942581

LatestVersion == 1

MinimumBlockSize == sizeBlockMeta + 1

\* binary.Write of a uint32, little endian.
LE32(x) == [i \in 1 .. 4 |-> (x \div (256 ^ (i - 1))) % 256]

\* DBMeta.WriteTo: the bytes of the header.
DBMetaBytes(mt) ==
    LE32(Magic) \o LE32(LatestVersion) \o LE32(mt.BlockSize)
        \o LE32(mt.BlockCount) \o LE32(mt.FirstFreeBlock)

\* Seek to pos and Write of b on the stream f.
writeAt(f, pos, b) ==
    LET end == IF Len(f) > pos + Len(b) THEN Len(f) ELSE pos + Len(b)
    IN  [i \in 1 .. end |->
            IF i > pos /\ i <= pos + Len(b) THEN b[i - pos]
            ELSE IF i <= Len(f) THEN f[i] ELSE 0]

\* DBMeta.WriteBlockCount on the stream f.
WriteBlockCount(f, count) == writeAt(f, 12, LE32(count))

\* What BlockDB.grow(1, false) writes on the stream f of a file of count
\* blocks of blockSize bytes: the block in zeros, its BlockMeta, the count.
growStream(f, blockSize, count) ==
    LET at == sizeDBMeta + count * blockSize
    IN  WriteBlockCount(
            writeAt(writeAt(f, at, zeros(blockSize)), at, LE32(0) \o LE32(0)),
            count + 1)

\* No BlockDB.
nilDB == << >>

\* A block.Create that does not look at what the stream holds.
CreateWith_AnyStream(f, blockSize) ==
    IF blockSize < MinimumBlockSize
    THEN [f |-> f, err |-> "invalid block size", d |-> nilDB]
    ELSE [f |-> growStream(
                    writeAt(f, 0, DBMetaBytes([BlockSize |-> blockSize,
                                               BlockCount |-> 0,
                                               FirstFreeBlock |-> 0])),
                    blockSize, 0),
          err |-> NoErr,
          d |-> [BlockCreate EXCEPT
                    !.blk[0].data = zeros(blockSize - sizeBlockMeta)]]

\* block.Create(f, WithBlockSize(blockSize)): [f, err, d], f the stream
\* after the call.
CreateWith(f, blockSize) ==
    IF Len(f) # 0
    THEN [f |-> f, err |-> "expected empty file", d |-> nilDB]
    ELSE IF blockSize < MinimumBlockSize
    THEN [f |-> f, err |-> "invalid block size", d |-> nilDB]
    ELSE [f |-> growStream(
                    writeAt(f, 0, DBMetaBytes([BlockSize |-> blockSize,
                                               BlockCount |-> 0,
                                               FirstFreeBlock |-> 0])),
                    blockSize, 0),
          err |-> NoErr,
          d |-> [BlockCreate EXCEPT
                    !.blk[0].data = zeros(blockSize - sizeBlockMeta)]]

InitCreate ==
    /\ cr \in { [f |-> f, was |-> f, blockSize |-> 0, err |-> NoErr,
                 d |-> nilDB, called |-> FALSE] : f \in Streams }
    /\ OnlyCreate

CreateFile(blockSize) ==
    /\ ~cr.called
    /\ LET r == CreateWith(cr.f, blockSize)
       IN  cr' = [f |-> r.f, was |-> cr.f, blockSize |-> blockSize,
                  err |-> r.err, d |-> r.d, called |-> TRUE]
    /\ UNCHANGED notCreate

NextCreate == \E blockSize \in BlockSizes : CreateFile(blockSize)

SpecCreate == InitCreate /\ [][NextCreate]_vars

\* C26: block.Create on a stream that is not empty, or with a block size
\* under the size of the block header plus one, fails and writes nothing;
\* otherwise it succeeds and the stream holds the header and exactly one
\* block: BlockCount = 1, FirstFreeBlock = 0, block 0 is the first block of
\* the index object, and there is no object.
C26_CreateContract ==
    cr.called =>
        IF Len(cr.was) # 0 \/ cr.blockSize < sizeBlockMeta + 1
        THEN cr.err # NoErr /\ cr.f = cr.was /\ cr.d = nilDB
        ELSE /\ cr.err = NoErr
             /\ Len(cr.f) = sizeDBMeta + cr.blockSize
             /\ cr.f = DBMetaBytes([BlockSize |-> cr.blockSize,
                                    BlockCount |-> 1, FirstFreeBlock |-> 0])
                         \o zeros(cr.blockSize)
             /\ cr.d.meta = [BlockCount |-> 1, FirstFreeBlock |-> 0]
             /\ cr.d.fmeta = cr.d.meta
             /\ DOMAIN cr.d.blk = {0}
             /\ Len(cr.d.indexObj) = 1 /\ cr.d.indexObj[1].idx = 0
             /\ cr.d.objects = << >>
             /\ Stats(cr.d) = [err |-> NoErr, FreeBlocks |-> 0, Objects |-> 0]
             /\ cr.blockSize = BlockSize => cr.d = BlockCreate

\* block.Create has succeeded with the least block size.
C26_Witness ==
    /\ cr.called /\ cr.err = NoErr
    /\ cr.blockSize = sizeBlockMeta + 1
    /\ Len(cr.f) = sizeDBMeta + sizeBlockMeta + 1

(***************************************************************************)
(* SpecCtl: the control calls of transactions, Commit and Rollback, made   *)
(* by one goroutine, one lock operation at a time.  A transaction is its   *)
(* store pointer (nil or not) and, for a write transaction, its own mutex  *)
(* wtx.m; the store is its RWMutex st.m: the writer bit and the number of  *)
(* readers.                                                                *)
(***************************************************************************)
MaxCtlTxs == 2
MaxCtlCalls == 4

CtlTxs == 1 .. MaxCtlTxs

CtlOps == {"Commit", "Rollback"}

\* The errors Commit returns from its loops (writeTx.write, HashMap.Delete).
CommitErrs == {NoErr, "key not found"}

NoCall == [t |-> 0, op |-> "", pc |-> "idle"]

\* sync.RWMutex.Unlock on st.m: fatal when the mutex is not write-locked.
storeUnlock(c) ==
    IF c.writer THEN [c EXCEPT !.writer = FALSE]
    ELSE [c EXCEPT !.call.pc = "fatal"]

\* The call returns e, unless it has died.
ctlReturn(c, e) ==
    IF c.call.pc = "fatal" THEN c
    ELSE [c EXCEPT !.call = NoCall, !.ret = e]

InitCtl ==
    /\ ctl = [tx |-> [t \in CtlTxs |->
                        [kind |-> "none", store |-> FALSE, m |-> FALSE]],
              writer |-> FALSE, readers |-> 0, call |-> NoCall,
              n |-> 0, ret |-> NoErr]
    /\ OnlyCtl

\* store.Writer: st.m.Lock(), then a transaction with a new mutex.
CtlWriter(t) ==
    /\ ctl.call.pc = "idle"
    /\ ctl.tx[t].kind = "none"
    /\ ~ctl.writer /\ ctl.readers = 0
    /\ ctl' = [ctl EXCEPT !.writer = TRUE,
                 !.tx[t] = [kind |-> "write", store |-> TRUE, m |-> FALSE]]
    /\ UNCHANGED notCtl

\* store.Reader: st.m.RLock().
CtlReader(t) ==
    /\ ctl.call.pc = "idle"
    /\ ctl.tx[t].kind = "none"
    /\ ~ctl.writer
    /\ ctl' = [ctl EXCEPT !.readers = @ + 1,
                 !.tx[t] = [kind |-> "read", store |-> TRUE, m |-> FALSE]]
    /\ UNCHANGED notCtl

\* The goroutine calls Commit or Rollback on a transaction it has.
CtlCall(t, op) ==
    /\ ctl.call.pc = "idle"
    /\ ctl.tx[t].kind # "none"
    /\ ctl.n < MaxCtlCalls
    /\ ctl' = [ctl EXCEPT !.call = [t |-> t, op |-> op, pc |-> "enter"],
                           !.n = @ + 1]
    /\ UNCHANGED notCtl

\* wtx.m.Lock(), the first statement of writeTx.Commit and of
\* writeTx.Rollback: blocks while wtx.m is locked.
WtxLock ==
    /\ ctl.call.pc = "enter"
    /\ ctl.tx[ctl.call.t].kind = "write"
    /\ ~ctl.tx[ctl.call.t].m
    /\ ctl' = [ctl EXCEPT !.tx[ctl.call.t].m = TRUE, !.call.pc = "locked"]
    /\ UNCHANGED notCtl

\* writeTx.Commit after wtx.m.Lock(): the transaction without a store
\* unlocks wtx.m and fails; the other runs its loops, ending with e, forgets
\* the store when e is nil, and unlocks st.m and wtx.m on its way out.
WtxCommit(e) ==
    /\ ctl.call.pc = "locked" /\ ctl.call.op = "Commit"
    /\ LET t == ctl.call.t
       IN  IF ~ctl.tx[t].store
           THEN /\ e = NoErr
                /\ ctl' = ctlReturn([ctl EXCEPT !.tx[t].m = FALSE],
                                    "transaction rolled back")
           ELSE LET c1 == [ctl EXCEPT !.tx[t].store = (e # NoErr)]
                    c2 == storeUnlock(c1)
                IN  ctl' = ctlReturn([c2 EXCEPT !.tx[t].m = FALSE], e)
    /\ UNCHANGED notCtl

\* writeTx.Rollback after wtx.m.Lock(): unlocks st.m and forgets the store
\* when it has one; wtx.m stays locked.
WtxRollback ==
    /\ ctl.call.pc = "locked" /\ ctl.call.op = "Rollback"
    /\ LET t == ctl.call.t
       IN  IF ctl.tx[t].store
           THEN ctl' = ctlReturn(
                         storeUnlock([ctl EXCEPT !.tx[t].store = FALSE]),
                         NoErr)
           ELSE ctl' = ctlReturn(ctl, NoErr)
    /\ UNCHANGED notCtl

\* readTx.Commit and readTx.Rollback: no mutex of their own.
RtxCall ==
    /\ ctl.call.pc = "enter"
    /\ ctl.tx[ctl.call.t].kind = "read"
    /\ LET t == ctl.call.t
       IN  IF ctl.tx[t].store
           THEN ctl' = ctlReturn([ctl EXCEPT !.tx[t].store = FALSE,
                                             !.readers = @ - 1], NoErr)
           ELSE ctl' = ctlReturn(ctl,
                         IF ctl.call.op = "Commit"
                         THEN "transaction rolled back" ELSE NoErr)
    /\ UNCHANGED notCtl

NextCtl ==
    \/ \E t \in CtlTxs : CtlWriter(t)
    \/ \E t \in CtlTxs : CtlReader(t)
    \/ \E t \in CtlTxs, op \in CtlOps : CtlCall(t, op)
    \/ WtxLock
    \/ \E e \in CommitErrs : WtxCommit(e)
    \/ WtxRollback
    \/ RtxCall

\* The goroutine runs on while it can take a step.
SpecCtl == InitCtl /\ [][NextCtl]_vars /\ WF_vars(NextCtl)

MaxReaders == 2
MaxLoads == 2

Readers == 1 .. MaxReaders

RdKeys == {<<1>>, <<2>>}

RdValues == {<<7>>, <<8>>}

\* The error of a Read at the end of the stream.
RdEOF == "EOF"

\* The stream of a map whose list is node 1 (key <<1>>, value v1) followed
\* by node 2 (key <<2>>, value v2): the nodes, then the keys and values.
RdNode(prev, next, key, value) == << prev, next, key, value >>

RdStream(v1, v2) ==
    LET w  == sizeKVNode \div 8
        n1 == 1
        n2 == n1 + w
        k1 == n2 + w
        x1 == k1 + 1
        k2 == x1 + Len(v1)
        x2 == k2 + 1
    IN  [f      |-> RdNode(0, n2, k1, x1) \o RdNode(n1, 0, k2, x2)
                    \o <<1>> \o v1 \o <<2>> \o v2,
         chunks |-> (n1 :> w) @@ (n2 :> w) @@ (k1 :> 1) @@ (x1 :> Len(v1))
                    @@ (k2 :> 1) @@ (x2 :> Len(v2)),
         head   |-> n1,
         stored |-> (<<1>> :> v1) @@ (<<2>> :> v2)]

RdIdle ==
    [pc |-> "idle", key |-> <<>>, stage |-> "", cur |-> 0, node |-> <<>>,
     res |-> <<>>, n |-> 0]

InitRead ==
    /\ \E v1 \in RdValues, v2 \in RdValues :
          LET s == RdStream(v1, v2)
          IN  rdr = [f |-> s.f, pos |-> 1, chunks |-> s.chunks,
                    head |-> s.head, stored |-> s.stored, readers |-> 0,
                    g |-> [r \in Readers |-> RdIdle]]
    /\ OnlyRead

\* The load ends with this result; m.m is still held for reading.
rdDone(r, found, value, err) ==
    [r EXCEPT !.pc = "done",
              !.res = [found |-> found, value |-> value, err |-> err]]

\* pool.Get(ptr) and then Chunk.ReadAll on it: the chunk missing from
\* pool.chunks ends the load with an error.
rdGet(r, chunks, ptr, stage) ==
    IF ptr \notin DOMAIN chunks
    THEN rdDone(r, stage = "value", <<>>, "chunk not found")
    ELSE [r EXCEPT !.pc = "seek", !.cur = ptr, !.stage = stage]

\* HashMap.load from the bytes a Chunk.ReadAll has returned: KVNode.Read
\* (binary.Read fails on a chunk shorter than a node) and KeyBytes after the
\* node, findHashMapItem after the key, the result after the value.
rdStep(r, chunks, b, err) ==
    IF err # NoErr THEN rdDone(r, r.stage = "value", <<>>, err)
    ELSE IF r.stage = "node" /\ Len(b) < sizeKVNode \div 8
    THEN rdDone(r, FALSE, <<>>, "unexpected EOF")
    ELSE IF r.stage = "node"
    THEN rdGet([r EXCEPT !.node = b], chunks, b[3], "key")
    ELSE IF r.stage = "key"
    THEN IF b = r.key THEN rdGet(r, chunks, r.node[4], "value")
         ELSE IF r.node[2] = 0 THEN rdDone(r, FALSE, <<>>, NoErr)
         ELSE rdGet(r, chunks, r.node[2], "node")
    ELSE rdDone(r, TRUE, b, NoErr)

\* Object.Read(p) with len(p) = n: the bytes from the position of the
\* stream, which moves; io.EOF when fewer than n are left.
objectRead(f, pos, n) ==
    LET got == IF pos > Len(f) THEN 0 ELSE Min(n, Len(f) - pos + 1)
    IN  [b   |-> [i \in 1 .. n |-> IF i <= got THEN f[pos + i - 1] ELSE 0],
         pos |-> pos + got,
         err |-> IF got < n THEN RdEOF ELSE NoErr]

\* HashMap.Load: m.m.RLock(), findBucket in memory, then the head node.
LoadCall(r, key) ==
    /\ rdr.g[r].pc = "idle"
    /\ rdr.g[r].n < MaxLoads
    /\ rdr' = [rdr EXCEPT !.readers = @ + 1,
                !.g[r] = rdGet([RdIdle EXCEPT !.key = key,
                                              !.n = rdr.g[r].n + 1],
                               rdr.chunks, rdr.head, "node")]
    /\ UNCHANGED notRead

\* Chunk.Read, first half: pool.m.RLock() and f.Seek to the chunk.
ChunkSeek(r) ==
    /\ rdr.g[r].pc = "seek"
    /\ rdr' = [rdr EXCEPT !.pos = rdr.g[r].cur, !.g[r].pc = "read"]
    /\ UNCHANGED notRead

\* Chunk.Read, second half: f.Read of the size of the chunk, from where the
\* stream is, and what HashMap.load does with the bytes.
ChunkRead(r) ==
    /\ rdr.g[r].pc = "read"
    /\ LET got == objectRead(rdr.f, rdr.pos, rdr.chunks[rdr.g[r].cur])
       IN  rdr' = [rdr EXCEPT !.pos = got.pos,
                     !.g[r] = rdStep(rdr.g[r], rdr.chunks, got.b, got.err)]
    /\ UNCHANGED notRead

\* HashMap.Load returns: m.m.RUnlock().
LoadReturn(r) ==
    /\ rdr.g[r].pc = "done"
    /\ rdr' = [rdr EXCEPT !.readers = @ - 1, !.g[r].pc = "idle"]
    /\ UNCHANGED notRead

NextRead ==
    \/ \E r \in Readers, key \in RdKeys : LoadCall(r, key)
    \/ \E r \in Readers : ChunkSeek(r)
    \/ \E r \in Readers : ChunkRead(r)
    \/ \E r \in Readers : LoadReturn(r)

SpecRead == InitRead /\ [][NextRead]_vars

\* C35: every Load of concurrent readers returns exactly the value stored
\* for its key.
C35_ConcurrentLoad ==
    \A r \in Readers :
        rdr.g[r].pc = "done" =>
            rdr.g[r].res = [found |-> TRUE, value |-> rdr.stored[rdr.g[r].key],
                           err |-> NoErr]

(***************************************************************************)
(* SpecConc: goroutines calling BlockDB.Create on one block file at the    *)
(* same time.  A call is its steps between the Lock and Unlock of db.m:    *)
(* the lookup of the name in db.objects, which holds no lock; then either  *)
(* the emptying of the object found, or allocSingle, the write of the      *)
(* metadata into the index pool, and the entry into db.objects.            *)
(***************************************************************************)
MaxCreators == 2
MaxCreates == 1

Creators == 1 .. MaxCreators

ConcIdle ==
    [pc |-> "idle", name |-> << >>, b |-> nilBlock, chunk |-> 0,
     err |-> NoErr, n |-> 0]

\* The file is new, or has one or two blocks in its free list.
InitConc ==
    /\ \E n \in 0 .. MaxGrow :
          conc = [d |-> IF n = 0 THEN BlockCreate ELSE Grow(BlockCreate, n).d,
                  g |-> [c \in Creators |-> ConcIdle]]
    /\ OnlyConc

\* The program runs until a goroutine dies.
ConcRuns == \A c \in Creators : conc.g[c].pc # "fatal"

\* meta, ok := db.objects[name], with db.m not held: the map as it is, or
\* the fatal error of the runtime for a map read during the map write of a
\* goroutine that is in its last step.
CreateLookup(c, name, dies) ==
    /\ ConcRuns
    /\ conc.g[c].pc = "idle"
    /\ conc.g[c].n < MaxCreates
    /\ dies => \E o \in Creators \ {c} : conc.g[o].pc = "register"
    /\ conc' = [conc EXCEPT !.g[c] =
                  [ConcIdle EXCEPT !.name = name, !.n = conc.g[c].n + 1,
                     !.pc = IF dies THEN "fatal"
                            ELSE IF name \in DOMAIN conc.d.objects
                            THEN "found" ELSE "new"]]
    /\ UNCHANGED notConc

\* The branch for a name found, under db.m: the object is cut down to its
\* first block, emptied.
CreateFound(c) ==
    /\ ConcRuns
    /\ conc.g[c].pc = "found"
    /\ \E r \in DBCreate(conc.d, conc.g[c].name) :
          conc' = [conc EXCEPT !.d = r.d, !.g[c].pc = "done",
                               !.g[c].err = r.err]
    /\ UNCHANGED notConc

\* db.m.Lock(); allocSingle; db.m.Unlock().
CreateAlloc(c) ==
    /\ ConcRuns
    /\ conc.g[c].pc = "new"
    /\ LET a == allocSingle(conc.d)
       IN  conc' = [conc EXCEPT !.d = a.d,
                       !.g[c].pc = IF a.err = NoErr THEN "index" ELSE "done",
                       !.g[c].err = a.err,
                       !.g[c].b = IF a.err = NoErr THEN a.b ELSE nilBlock]
    /\ UNCHANGED notConc

\* db.index.AllocAndWrite(b), under the lock of the pool.
CreateIndex(c) ==
    /\ ConcRuns
    /\ conc.g[c].pc = "index"
    /\ \E w \in AllocAndWrite(conc.d.index,
                              jsonMarshal(conc.g[c].name, conc.g[c].b.idx)) :
          LET i == indexed(conc.d, w)
          IN  conc' = [conc EXCEPT !.d = i.d,
                          !.g[c].pc = IF i.err = NoErr THEN "register"
                                      ELSE "done",
                          !.g[c].err = i.err,
                          !.g[c].chunk = w.ret]
    /\ UNCHANGED notConc

\* db.m.Lock(); db.objects[name] = meta; the object is returned.
CreateRegister(c) ==
    /\ ConcRuns
    /\ conc.g[c].pc = "register"
    /\ conc' = [conc EXCEPT
                  !.d.objects = (conc.g[c].name :>
                                    [StartBlock |-> conc.g[c].b.idx,
                                     chunk |-> conc.g[c].chunk]) @@ @,
                  !.g[c].pc = "done"]
    /\ UNCHANGED notConc

NextConc ==
    \/ \E c \in Creators, name \in Names, dies \in BOOLEAN :
          CreateLookup(c, name, dies)
    \/ \E c \in Creators : CreateFound(c)
    \/ \E c \in Creators : CreateAlloc(c)
    \/ \E c \in Creators : CreateIndex(c)
    \/ \E c \in Creators : CreateRegister(c)

SpecConc == InitConc /\ [][NextConc]_vars

\* The chunks of the index pool that hold the metadata of the name.
indexEntries(d, name) ==
    { p \in DOMAIN d.index.chunks :
        /\ ~d.index.chunks[p].free
        /\ jsonUnmarshal(d.index.disk[p].data.v).Name = name }

\* C36: after concurrent calls of Create that returned nil, every name
\* created has exactly one metadata entry, every block the calls took is
\* the start block of exactly one object, and every block of the file is in
\* one chain: of an object, of the index or of the free blocks.
C36_ConcurrentCreate ==
    (\A c \in Creators : conc.g[c].pc = "done" /\ conc.g[c].err = NoErr) =>
        /\ \A c \in Creators :
              /\ conc.g[c].name \in DOMAIN conc.d.objects
              /\ Cardinality(indexEntries(conc.d, conc.g[c].name)) = 1
              /\ conc.g[c].b # nilBlock =>
                    Cardinality({ n \in DOMAIN conc.d.objects :
                        conc.d.objects[n].StartBlock = conc.g[c].b.idx }) = 1
        /\ Partitioned(conc.d)

(***************************************************************************)
(* SpecWrite: Object.Write one frame of its recursion at a time, on an     *)
(* object of a file with zero to MaxGrow free blocks, with inputs long     *)
(* enough to need several blocks in one step.                              *)
(***************************************************************************)
MaxWriteLen == 26
MaxWriteCalls == 2

\* A frame that adds one block, whatever is left.
writeRound_OneBlock(d, o, p) ==
    LET bm       == o.blocks[o.posBlockIdx + 1]
        canWrite == Min(blockCap - o.posBlockOff, Len(p))
        off      == o.posBlockOff + canWrite
        rest     == SubSeq(p, canWrite + 1, Len(p))
        newBlocks == 1
        d1       == writeData(d, bm.idx, o.posBlockOff, SubSeq(p, 1, canWrite))
        d2       == IF off > bm.End THEN writeEnd(d1, bm.idx, off) ELSE d1
        o2       == IF off > bm.End
                    THEN [o EXCEPT !.offset = @ + canWrite, !.posBlockOff = off,
                                   !.blocks[o.posBlockIdx + 1].End = off]
                    ELSE [o EXCEPT !.offset = @ + canWrite, !.posBlockOff = off]
        out(d3, o3, err, again) ==
            [d |-> d3, o |-> o3, err |-> err, n |-> canWrite, rest |-> rest,
             again |-> again]
        moved(a) ==
            IF a.err # NoErr THEN out(a.d, a.o, a.err, FALSE)
            ELSE out(a.d, [a.o EXCEPT !.posBlockIdx = @ + 1,
                                      !.posBlockOff = 0], NoErr, TRUE)
    IN  IF Len(rest) = 0 THEN out(d2, o2, NoErr, FALSE)
        ELSE IF off # blockCap THEN out(d2, o2, NoErr, TRUE)
        ELSE IF bm.Next = 0 THEN moved(alloc(d2, o2, newBlocks))
        ELSE moved([d |-> d2, o |-> o2, err |-> NoErr])

\* One frame of Object.write without its last statement, the call of
\* o.write on the bytes left: [d, o, err, n, rest, again], again telling
\* that the call follows.
writeRound(d, o, p) ==
    LET bm       == o.blocks[o.posBlockIdx + 1]
        canWrite == Min(blockCap - o.posBlockOff, Len(p))
        off      == o.posBlockOff + canWrite
        rest     == SubSeq(p, canWrite + 1, Len(p))
        newBlocks == IF Len(rest) \div BlockSize = 0 THEN 1
                     ELSE Len(rest) \div BlockSize
        d1       == writeData(d, bm.idx, o.posBlockOff, SubSeq(p, 1, canWrite))
        d2       == IF off > bm.End THEN writeEnd(d1, bm.idx, off) ELSE d1
        o2       == IF off > bm.End
                    THEN [o EXCEPT !.offset = @ + canWrite, !.posBlockOff = off,
                                   !.blocks[o.posBlockIdx + 1].End = off]
                    ELSE [o EXCEPT !.offset = @ + canWrite, !.posBlockOff = off]
        out(d3, o3, err, again) ==
            [d |-> d3, o |-> o3, err |-> err, n |-> canWrite, rest |-> rest,
             again |-> again]
        moved(a) ==
            IF a.err # NoErr THEN out(a.d, a.o, a.err, FALSE)
            ELSE out(a.d, [a.o EXCEPT !.posBlockIdx = @ + 1,
                                      !.posBlockOff = 0], NoErr, TRUE)
    IN  IF Len(rest) = 0 THEN out(d2, o2, NoErr, FALSE)
        ELSE IF off # blockCap THEN out(d2, o2, NoErr, TRUE)
        ELSE IF bm.Next = 0 THEN moved(alloc(d2, o2, newBlocks))
        ELSE moved([d |-> d2, o |-> o2, err |-> NoErr])

\* The file with grown free blocks and one object, new.
WriteFile(grown) ==
    LET d0 == IF grown = 0 THEN BlockCreate ELSE Grow(BlockCreate, grown).d
        c  == CHOOSE r \in DBCreate(d0, <<102>>) : r.err = NoErr
    IN  [d |-> c.d, o |-> c.o]

\* What a frame found: whether it filled the last block of the chain with
\* input left, how many bytes were left, and the blocks it added.
NoStep == [tail |-> FALSE, r |-> 0, added |-> 0]

atTail(o, p) ==
    /\ o.blocks[o.posBlockIdx + 1].Next = 0
    /\ Len(p) > blockCap - o.posBlockOff

left(o, p) == Len(p) - (blockCap - o.posBlockOff)

InitWrite ==
    /\ \E grown \in 0 .. MaxGrow :
          wr = [d |-> WriteFile(grown).d, o |-> WriteFile(grown).o,
                p |-> << >>, busy |-> FALSE, err |-> NoErr, n |-> 0,
                whole |-> [d |-> WriteFile(grown).d, o |-> WriteFile(grown).o,
                           err |-> NoErr, n |-> 0],
                calls |-> 0, step |-> NoStep]
    /\ OnlyWrite

\* Object.Write(p) is called: nothing is written yet.  whole is what
\* Object.write makes of the call in one piece.
WriteCall(len) ==
    /\ ~wr.busy /\ wr.err = NoErr
    /\ wr.calls < MaxWriteCalls
    /\ wr' = [wr EXCEPT !.p = payload(wr.calls, len), !.busy = TRUE, !.n = 0,
                        !.whole = write(wr.d, wr.o, payload(wr.calls, len)),
                        !.calls = @ + 1, !.step = NoStep]
    /\ UNCHANGED notWrite

\* One frame of Object.write.
WriteRound ==
    /\ wr.busy
    /\ LET r == writeRound(wr.d, wr.o, wr.p)
       IN  wr' = [wr EXCEPT !.d = r.d, !.o = r.o, !.p = r.rest,
                            !.busy = r.again, !.err = r.err, !.n = @ + r.n,
                            !.step = [tail  |-> atTail(wr.o, wr.p),
                                      r     |-> Len(r.rest),
                                      added |-> Len(r.o.blocks)
                                                  - Len(wr.o.blocks)]]
    /\ UNCHANGED notWrite

\* Seek(offset, io.SeekStart) between two calls of Write.
WriteSeek(offset) ==
    /\ ~wr.busy /\ wr.err = NoErr
    /\ wr.calls \in 1 .. MaxWriteCalls - 1
    /\ seek(wr.o, offset, 0).err = NoErr
    /\ wr.o # seek(wr.o, offset, 0).o
    /\ wr' = [wr EXCEPT !.o = seek(wr.o, offset, 0).o, !.step = NoStep]
    /\ UNCHANGED notWrite

NextWrite ==
    \/ \E len \in 1 .. MaxWriteLen : WriteCall(len)
    \/ WriteRound
    \/ \E offset \in {0, 1, blockCap} : WriteSeek(offset)

SpecWrite == InitWrite /\ [][NextWrite]_vars

\* The frames of a call of Object.Write, one after the other, are the call.
WriteRoundsAreWrite ==
    (~wr.busy /\ wr.calls > 0 /\ wr.step # NoStep) =>
        wr.whole = [d |-> wr.d, o |-> wr.o, err |-> wr.err, n |-> wr.n]

\* What every frame that fills the last block of the chain with input left
\* does besides adding blocks: the old last block points to the first block
\* added, on the stream as in memory, the chain ends at the last block added,
\* and the cursor is at the start of the next block with the call going on.
spliced(o, d2, o2) ==
    LET tail  == Len(o.blocks)
        first == o2.blocks[tail + 1].idx
    IN  /\ SubSeq(o2.blocks, 1, tail - 1) = SubSeq(o.blocks, 1, tail - 1)
        /\ o2.blocks[tail].Next = first
        /\ d2.blk[o.blocks[tail].idx].Next = first
        /\ o2.blocks[Len(o2.blocks)].Next = 0
        /\ d2.blk[o2.blocks[Len(o2.blocks)].idx].Next = 0
        /\ o2.posBlockIdx = o.posBlockIdx + 1
        /\ o2.posBlockOff = 0

\* C37 as stated: a frame of Object.write that fills the last block of the
\* chain with r > 0 bytes left adds ceil(r / BlockSize) blocks, at least 1.
C37_WriteStepStated ==
    [][ (wr.busy /\ atTail(wr.o, wr.p) /\ wr'.err = NoErr) =>
           /\ Len(wr'.o.blocks) - Len(wr.o.blocks)
                = ceilDiv(left(wr.o, wr.p), BlockSize)
           /\ spliced(wr.o, wr'.d, wr'.o)
           /\ wr'.busy ]_vars

\* C37: a frame of Object.write that fills the last block of the chain with
\* r > 0 bytes left adds floor(r / BlockSize) blocks, at least 1, splices
\* them behind the old last block, moves the cursor to the start of the next
\* block and goes on with the r bytes.
C37_WriteStep ==
    [][ (wr.busy /\ atTail(wr.o, wr.p) /\ wr'.err = NoErr) =>
           /\ Len(wr'.o.blocks) - Len(wr.o.blocks)
                = (IF left(wr.o, wr.p) < BlockSize THEN 1
                   ELSE left(wr.o, wr.p) \div BlockSize)
           /\ spliced(wr.o, wr'.d, wr'.o)
           /\ wr'.busy
           /\ Len(wr'.p) = left(wr.o, wr.p) ]_vars

\* A frame that added two blocks at once with bytes left for a third.
C37_Witness ==
    /\ wr.step.tail /\ wr.err = NoErr
    /\ wr.step.r > 2 * BlockSize
    /\ wr.step.added = 2
====
